---------------------------- MODULE Spec2Model ----------------------------
(***************************************************************************)
(* A model of hal-elements: the codec between Elements consensus objects   *)
(* (transactions, inputs, outputs, confidential fields) and their          *)
(* descriptors (the *Info structs).                                        *)
(*                                                                         *)
(* Decoding is the GetInfo implementations of src/src/tx.rs and            *)
(* src/src/confidential.rs; encoding is the create_* functions of          *)
(* src/src/bin/hal-elements/cmd/tx.rs.  Every codec function is an         *)
(* operator; every action applies one of them to an argument drawn from a   *)
(* bounded set and records the call in (fn, arg, ret).                     *)
(*                                                                         *)
(* Conventions.                                                            *)
(*   Option<T>      None is << >>, Some(x) is <<x>>.                       *)
(*   panic / return Err(msg) is a panic with that message, Ok(v) a return. *)
(*   bytes          a sequence of numbers in 0..255.                       *)
(*   u32            where the width matters (sequence, vout) a pair        *)
(*                  <<hi, lo>> of 16-bit limbs, hi * 65536 + lo.           *)
(***************************************************************************)
EXTENDS Integers, Sequences, FiniteSets, TLC

VARIABLES fn, arg, ret, orig

vars == <<fn, arg, ret, orig>>

(***************************************************************************)
(* Option and panic plumbing.                                              *)
(***************************************************************************)
None == << >>

Some(x) == <<x>>

IsSome(o) == Len(o) = 1

IsNone(o) == Len(o) = 0

Unwrap(o) == o[1]

Ok(v) == [ok |-> TRUE, val |-> v]

Err(m) == [ok |-> FALSE, err |-> m]

\* The first panic met when the results rs are evaluated in order.
RECURSIVE FirstErr(_)
FirstErr(rs) ==
    IF rs = << >> THEN Ok(<< >>)
    ELSE IF ~ Head(rs).ok THEN Head(rs)
    ELSE FirstErr(Tail(rs))

AllOk(rs) == \A i \in 1..Len(rs) : rs[i].ok

\* Sequences over S of length at most n.
SeqUpTo(S, n) == UNION {[1..k -> S] : k \in 0..n}

Rep(n, b) == [i \in 1..n |-> b]

(***************************************************************************)
(* The bounds of the model.                                                *)
(***************************************************************************)
\* Inputs per transaction (descriptor or binary).
MaxInputs == 2

\* Outputs per transaction (descriptor or binary).
MaxOutputs == 2

\* Elements of PegoutData.extra_data.
MaxExtra == 2

(***************************************************************************)
(* confidential.rs: the tri-state fields.                                  *)
(*   Null, Explicit(v), Confidential(p, c): prefix byte p, 32-byte body c. *)
(***************************************************************************)
Null == [tag |-> "Null"]

Explicit(v) == [tag |-> "Explicit", v |-> v]

Confidential(p, c) == [tag |-> "Confidential", p |-> p, c |-> c]

ConfidentialType(x) ==
    CASE x.tag = "Null" -> "null"
      [] x.tag = "Explicit" -> "explicit"
      [] x.tag = "Confidential" -> "confidential"

\* The commitment bytes: the prefix byte, then the body.
Commitment(x) == IF x.tag = "Confidential" THEN Some(<<x.p>> \o x.c) ELSE None

ExplicitOf(x) == IF x.tag = "Explicit" THEN Some(x.v) ELSE None

Value_get_info(self) ==
    [type_ |-> ConfidentialType(self),
     value |-> ExplicitOf(self),
     commitment |-> Commitment(self)]

\* The one asset id that has a label: the bytes that sha256d::Hash prints,
\* last byte first, as "6f0279e9ed041c3d710a9f57d0c02928416460c4b722ae3457a11eec381c526d".
LiquidBitcoinId ==
    <<109, 82, 28, 56, 236, 30, 161, 87, 52, 174, 34, 183, 196, 96, 100, 65,
      40, 41, 192, 208, 87, 159, 10, 113, 61, 28, 4, 237, 233, 121, 2, 111>>

from_asset_id(id) == IF id = LiquidBitcoinId THEN Some("liquid_bitcoin") ELSE None

Asset_get_info(self) ==
    [type_ |-> ConfidentialType(self),
     asset |-> ExplicitOf(self),
     commitment |-> Commitment(self),
     label |-> IF self.tag = "Explicit" THEN from_asset_id(self.v) ELSE None]

Nonce_get_info(self) ==
    [type_ |-> ConfidentialType(self),
     nonce |-> ExplicitOf(self),
     commitment |-> Commitment(self)]

(***************************************************************************)
(* cmd/tx.rs: encoding the tri-state fields.                               *)
(***************************************************************************)
bytes_32(bytes) == IF Len(bytes) # 32 THEN None ELSE Some([i \in 1..32 |-> bytes[i]])

\* A faulty from_slice: the body is cut one byte early, so it starts at the
\* prefix byte and loses the last byte.
from_slice_shifted(bytes, prefixes) ==
    IF Len(bytes) = 33 /\ bytes[1] \in prefixes
    THEN Some(Confidential(bytes[1], SubSeq(bytes, 1, 32)))
    ELSE None

\* PedersenCommitment / Generator / PublicKey ::from_slice: 33 bytes whose
\* first byte is one of the type's two prefixes; the curve check on the body
\* is the library's and is not modelled.
from_slice(bytes, prefixes) ==
    IF Len(bytes) = 33 /\ bytes[1] \in prefixes
    THEN Some(Confidential(bytes[1], SubSeq(bytes, 2, 33)))
    ELSE None

ValuePrefixes == {8, 9}

AssetPrefixes == {10, 11}

NoncePrefixes == {2, 3}

create_commitment(commitment, prefixes) ==
    IF IsNone(commitment)
    THEN Err("Field \"commitment\" is required for confidential values.")
    ELSE IF IsNone(from_slice(Unwrap(commitment), prefixes))
    THEN Err("invalid confidential commitment")
    ELSE Ok(Unwrap(from_slice(Unwrap(commitment), prefixes)))

create_confidential_value(info) ==
    CASE info.type_ = "null" -> Ok(Null)
      [] info.type_ = "explicit" ->
            IF IsNone(info.value)
            THEN Err("Field \"value\" is required for explicit values.")
            ELSE Ok(Explicit(Unwrap(info.value)))
      [] info.type_ = "confidential" -> create_commitment(info.commitment, ValuePrefixes)

\* An encoder that takes the asset id from the label when asset is absent.
create_confidential_asset_labelled(info) ==
    CASE info.type_ = "null" -> Ok(Null)
      [] info.type_ = "explicit" ->
            IF IsSome(info.asset) THEN Ok(Explicit(Unwrap(info.asset)))
            ELSE IF info.label = Some("liquid_bitcoin") THEN Ok(Explicit(LiquidBitcoinId))
            ELSE Err("Field \"asset\" is required for explicit assets.")
      [] info.type_ = "confidential" -> create_commitment(info.commitment, AssetPrefixes)

create_confidential_asset(info) ==
    CASE info.type_ = "null" -> Ok(Null)
      [] info.type_ = "explicit" ->
            IF IsNone(info.asset)
            THEN Err("Field \"asset\" is required for explicit assets.")
            ELSE Ok(Explicit(Unwrap(info.asset)))
      [] info.type_ = "confidential" -> create_commitment(info.commitment, AssetPrefixes)

create_confidential_nonce(info) ==
    CASE info.type_ = "null" -> Ok(Null)
      [] info.type_ = "explicit" ->
            IF IsNone(info.nonce)
            THEN Err("Field \"nonce\" is required for asset issuances.")
            ELSE IF IsNone(bytes_32(Unwrap(info.nonce)))
            THEN Err("wrong size of \"nonce\" field")
            ELSE Ok(Explicit(Unwrap(bytes_32(Unwrap(info.nonce)))))
      [] info.type_ = "confidential" -> create_commitment(info.commitment, NoncePrefixes)

(***************************************************************************)
(* Scripts: the byte-level operations of the script Builder and of the      *)
(* instruction iterator, as used by cmd/tx.rs and tx.rs.                    *)
(***************************************************************************)
OP_RETURN == 106

OP_PUSHDATA1 == 76

OP_PUSHDATA2 == 77

\* Builder::push_slice: the shortest push opcode for the length, then the data.
push_slice(script, data) ==
    script \o
    (IF Len(data) < OP_PUSHDATA1 THEN <<Len(data)>>
     ELSE IF Len(data) < 256 THEN <<OP_PUSHDATA1, Len(data)>>
     ELSE <<OP_PUSHDATA2, Len(data) % 256, Len(data) \div 256>>) \o data

push_opcode(script, op) == script \o <<op>>

PushBytes(data) == [push |-> TRUE, data |-> data]

Op(code) == [push |-> FALSE, op |-> code]

\* Script::instructions(): the opcodes and data pushes of a script, or None
\* when a push runs past the end of the script.
RECURSIVE Instructions(_)
Instructions(script) ==
    IF script = << >> THEN Some(<< >>)
    ELSE LET b == Head(script)
             rest == Tail(script)
             hdr == IF b < OP_PUSHDATA1 THEN 0
                    ELSE IF b = OP_PUSHDATA1 THEN 1
                    ELSE 2
             n == IF b < OP_PUSHDATA1 THEN b
                  ELSE IF b = OP_PUSHDATA1
                  THEN (IF Len(rest) >= 1 THEN rest[1] ELSE 0)
                  ELSE (IF Len(rest) >= 2 THEN rest[1] + 256 * rest[2] ELSE 0)
         IN IF b > OP_PUSHDATA2
            THEN LET tl == Instructions(rest)
                 IN IF IsNone(tl) THEN None ELSE Some(<<Op(b)>> \o Unwrap(tl))
            ELSE IF Len(rest) < hdr + n THEN None
            ELSE LET tl == Instructions(SubSeq(rest, hdr + n + 1, Len(rest)))
                 IN IF IsNone(tl) THEN None
                    ELSE Some(<<PushBytes(SubSeq(rest, hdr + 1, hdr + n))>> \o Unwrap(tl))

\* Script::asm(): the disassembly lists the instructions; a truncated script
\* disassembles to an error marker.
asm(script) ==
    IF IsSome(Instructions(script)) THEN Unwrap(Instructions(script)) ELSE <<Op(-1)>>

is_p2pk(s) ==
    \/ Len(s) = 67 /\ s[1] = 65 /\ s[67] = 172
    \/ Len(s) = 35 /\ s[1] = 33 /\ s[35] = 172

is_p2pkh(s) ==
    Len(s) = 25 /\ s[1] = 118 /\ s[2] = 169 /\ s[3] = 20 /\ s[24] = 136 /\ s[25] = 172

is_op_return(s) == Len(s) > 0 /\ s[1] = OP_RETURN

is_p2sh(s) == Len(s) = 23 /\ s[1] = 169 /\ s[2] = 20 /\ s[23] = 135

is_v0_p2wpkh(s) == Len(s) = 22 /\ s[1] = 0 /\ s[2] = 20

is_v0_p2wsh(s) == Len(s) = 34 /\ s[1] = 0 /\ s[2] = 32

ScriptType(s) ==
    IF is_p2pk(s) THEN "p2pk"
    ELSE IF is_p2pkh(s) THEN "p2pkh"
    ELSE IF is_op_return(s) THEN "opreturn"
    ELSE IF is_p2sh(s) THEN "p2sh"
    ELSE IF is_v0_p2wpkh(s) THEN "p2wpkh"
    ELSE IF is_v0_p2wsh(s) THEN "p2wsh"
    ELSE "unknown"

(***************************************************************************)
(* Addresses: the address parameters, the kind of payload and its hash.    *)
(***************************************************************************)
Address(params, kind, hash) == [params |-> params, kind |-> kind, hash |-> hash]

\* Address::from_script with no blinding key.
Address_from_script(s, params) ==
    IF is_p2pkh(s) THEN Some(Address(params, "p2pkh", SubSeq(s, 4, 23)))
    ELSE IF is_p2sh(s) THEN Some(Address(params, "p2sh", SubSeq(s, 3, 22)))
    ELSE IF is_v0_p2wpkh(s) THEN Some(Address(params, "p2wpkh", SubSeq(s, 3, 22)))
    ELSE IF is_v0_p2wsh(s) THEN Some(Address(params, "p2wsh", SubSeq(s, 3, 34)))
    ELSE None

\* Address::script_pubkey
script_pubkey(address) ==
    CASE address.kind = "p2pkh" -> <<118, 169, 20>> \o address.hash \o <<136, 172>>
      [] address.kind = "p2sh" -> <<169, 20>> \o address.hash \o <<135>>
      [] address.kind = "p2wpkh" -> <<0, 20>> \o address.hash
      [] address.kind = "p2wsh" -> <<0, 32>> \o address.hash

\* lib.rs: the known networks and their address parameters.
Networks == {"ElementsRegtest", "Liquid"}

from_params(params) ==
    CASE params = "ELEMENTS" -> Some("ElementsRegtest")
      [] params = "LIQUID" -> Some("Liquid")
      [] OTHER -> None

address_params(network) ==
    CASE network = "ElementsRegtest" -> "ELEMENTS"
      [] network = "Liquid" -> "LIQUID"

\* The address parameters of the counterpart chain (tx.rs, BTCNET).
BTCNET == "BITCOIN"

(***************************************************************************)
(* tx.rs: decoding scripts.                                                *)
(***************************************************************************)
InputScript_get_info(script) ==
    [hex |-> Some(script), asm |-> Some(asm(script))]

\* Also hal's GetInfo for a counterpart-chain script, which has the same
\* shape; params are then BTCNET.
OutputScript_get_info(script, params) ==
    [hex |-> Some(script),
     asm |-> Some(asm(script)),
     type_ |-> Some(ScriptType(script)),
     address |-> Address_from_script(script, params)]

(***************************************************************************)
(* cmd/tx.rs: encoding scripts.                                            *)
(***************************************************************************)
create_script_sig(ss) ==
    IF IsSome(ss.hex) THEN Ok(Unwrap(ss.hex))
    ELSE IF IsSome(ss.asm) THEN Err("Decoding script assembly is not yet supported.")
    ELSE Err("No scriptSig info provided.")

\* The network check of the address branch: the network the accumulator
\* holds afterwards, or a panic.
check_network(address, used_network) ==
    LET network == from_params(address.params)
    IN IF IsNone(network) THEN Ok(used_network)
       ELSE IF IsSome(used_network) /\ Unwrap(used_network) # Unwrap(network)
       THEN Err("Addresses for different networks are used in the output scripts.")
       ELSE Ok(network)

\* A faulty create_script_pubkey: the network of a given address is checked
\* and recorded before the script source is chosen, also when hex wins.
create_script_pubkey_address_checked(spk, used_network) ==
    LET net == IF IsSome(spk.address) THEN check_network(Unwrap(spk.address), used_network)
               ELSE Ok(used_network)
    IN IF ~ net.ok THEN net
       ELSE IF IsSome(spk.hex) THEN Ok([script |-> Unwrap(spk.hex), used_network |-> net.val])
       ELSE IF IsSome(spk.asm) THEN Err("Decoding script assembly is not yet supported.")
       ELSE IF IsSome(spk.address)
       THEN Ok([script |-> script_pubkey(Unwrap(spk.address)), used_network |-> net.val])
       ELSE Err("No scriptPubKey info provided.")

\* A create_script_pubkey that falls back to the address when asm is given
\* without hex.
create_script_pubkey_address_fallback(spk, used_network) ==
    IF IsSome(spk.hex) THEN Ok([script |-> Unwrap(spk.hex), used_network |-> used_network])
    ELSE IF IsSome(spk.address)
    THEN LET net == check_network(Unwrap(spk.address), used_network)
         IN IF ~ net.ok THEN net
            ELSE Ok([script |-> script_pubkey(Unwrap(spk.address)),
                     used_network |-> net.val])
    ELSE IF IsSome(spk.asm) THEN Err("Decoding script assembly is not yet supported.")
    ELSE Err("No scriptPubKey info provided.")

\* Returns the script and the accumulator as the call leaves it.
create_script_pubkey(spk, used_network) ==
    IF IsSome(spk.hex) THEN Ok([script |-> Unwrap(spk.hex), used_network |-> used_network])
    ELSE IF IsSome(spk.asm) THEN Err("Decoding script assembly is not yet supported.")
    ELSE IF IsSome(spk.address)
    THEN LET net == check_network(Unwrap(spk.address), used_network)
         IN IF ~ net.ok THEN net
            ELSE Ok([script |-> script_pubkey(Unwrap(spk.address)),
                     used_network |-> net.val])
    ELSE Err("No scriptPubKey info provided.")

create_bitcoin_script_pubkey(spk) ==
    IF IsSome(spk.hex) THEN Ok(Unwrap(spk.hex))
    ELSE IF IsSome(spk.asm) THEN Err("Decoding script assembly is not yet supported.")
    ELSE IF IsSome(spk.address) THEN Ok(script_pubkey(Unwrap(spk.address)))
    ELSE Err("No scriptPubKey info provided.")

RECURSIVE push_slices(_, _)
push_slices(script, datas) ==
    IF datas = << >> THEN script
    ELSE push_slices(push_slice(script, Head(datas)), Tail(datas))

\* A faulty lowering: the counterpart script is pushed before the genesis hash.
create_script_pubkey_from_pegout_data_swapped(pd) ==
    LET spk == create_bitcoin_script_pubkey(pd.script_pub_key)
    IN IF ~ spk.ok THEN spk
       ELSE Ok(push_slices(
                 push_slice(push_slice(push_opcode(<< >>, OP_RETURN), spk.val),
                            pd.genesis_hash),
                 pd.extra_data))

create_script_pubkey_from_pegout_data(pd) ==
    LET spk == create_bitcoin_script_pubkey(pd.script_pub_key)
    IN IF ~ spk.ok THEN spk
       ELSE Ok(push_slices(
                 push_slice(push_slice(push_opcode(<< >>, OP_RETURN), pd.genesis_hash),
                            spk.val),
                 pd.extra_data))

(***************************************************************************)
(* u32 where the width matters: <<hi, lo>>, two 16-bit limbs.              *)
(***************************************************************************)
U32(hi, lo) == <<hi, lo>>

U32Of(n) == <<n \div 65536, n % 65536>>

\* u32 -> u16 (TryInto): fails when the value does not fit 16 bits.
try_into_u16(n) == IF n[1] = 0 THEN Some(n[2]) ELSE None

\* u32::from(u16)
u32_from_u16(h) == <<0, h>>

\* Quotient and remainder of a u32 by ten.
Div10(n) == <<n[1] \div 10, ((n[1] % 10) * 65536 + n[2]) \div 10>>

Mod10(n) == ((n[1] % 10) * 65536 + n[2]) % 10

\* n * 10 + d as a u32, or None when it overflows 32 bits.
MulAdd10(n, d) ==
    LET lo == n[2] * 10 + d
        hi == n[1] * 10 + (lo \div 65536)
    IN IF hi > 65535 THEN None ELSE Some(<<hi, lo % 65536>>)

(***************************************************************************)
(* Strings are sequences of one-character strings.                         *)
(***************************************************************************)
DigitChars == <<"0", "1", "2", "3", "4", "5", "6", "7", "8", "9">>

HexChars == DigitChars \o <<"a", "b", "c", "d", "e", "f">>

IsDigit(c) == \E d \in 1..10 : DigitChars[d] = c

IsHex(c) == \E d \in 1..16 : HexChars[d] = c

HexVal(c) == (CHOOSE d \in 1..16 : HexChars[d] = c) - 1

\* Display of a u32: decimal, no leading zeros.
RECURSIVE u32_to_string(_)
u32_to_string(n) ==
    IF n[1] = 0 /\ n[2] < 10 THEN <<DigitChars[n[2] + 1]>>
    ELSE u32_to_string(Div10(n)) \o <<DigitChars[Mod10(n) + 1]>>

\* str::parse::<u32> on a string of digits: None on overflow.
RECURSIVE parse_digits(_, _)
parse_digits(str, acc) ==
    IF str = << >> THEN Some(acc)
    ELSE LET next == MulAdd10(acc, HexVal(Head(str)))
         IN IF IsNone(next) THEN None ELSE parse_digits(Tail(str), Unwrap(next))

\* bitcoin's parse_vout: a canonical decimal u32 (no sign, no leading zero).
parse_vout(str) ==
    IF Len(str) > 1 /\ Head(str) \in {"0", "+"} THEN None
    ELSE IF str = << >> \/ \E i \in 1..Len(str) : ~ IsDigit(str[i]) THEN None
    ELSE parse_digits(str, U32(0, 0))

\* Display of a 32-byte hash: lowercase hex, last byte first.
hash_to_string(h) ==
    [i \in 1..(2 * Len(h)) |->
        LET b == h[Len(h) - ((i - 1) \div 2)]
        IN IF i % 2 = 1 THEN HexChars[(b \div 16) + 1] ELSE HexChars[(b % 16) + 1]]

\* FromStr of a 32-byte hash: 64 hex digits, last byte first.
hash_from_str(str) ==
    IF Len(str) # 64 \/ \E i \in 1..Len(str) : ~ IsHex(str[i]) THEN None
    ELSE Some([k \in 1..32 |->
                 16 * HexVal(str[2 * (32 - k) + 1]) + HexVal(str[2 * (32 - k) + 2])])

(***************************************************************************)
(* Outpoints.                                                              *)
(***************************************************************************)
OutPoint(txid, vout) == [txid |-> txid, vout |-> vout]

\* format!("{}:{}", txid, vout), also Display of a counterpart-chain outpoint.
outpoint_to_string(op) == hash_to_string(op.txid) \o <<":">> \o u32_to_string(op.vout)

FirstColon(str) ==
    IF \E i \in 1..Len(str) : str[i] = ":"
    THEN CHOOSE i \in 1..Len(str) : str[i] = ":" /\ \A j \in 1..(i - 1) : str[j] # ":"
    ELSE 0

\* FromStr of a counterpart-chain outpoint.
bitcoin_outpoint_from_str(str) ==
    LET colon == FirstColon(str)
    IN IF Len(str) > 75 \/ colon = 0 \/ colon = 1 \/ colon = Len(str) THEN None
       ELSE LET txid == hash_from_str(SubSeq(str, 1, colon - 1))
                vout == parse_vout(SubSeq(str, colon + 1, Len(str)))
            IN IF IsNone(txid) \/ IsNone(vout) THEN None
               ELSE Some(OutPoint(Unwrap(txid), Unwrap(vout)))

\* FromStr of an Elements outpoint: an optional "[elements]" prefix, here one
\* element of the string, then the counterpart-chain form.
outpoint_from_str(str) ==
    IF str # << >> /\ Head(str) = "[elements]"
    THEN bitcoin_outpoint_from_str(Tail(str))
    ELSE bitcoin_outpoint_from_str(str)

\* A faulty outpoint_from_input_info: the two forms are never compared, the
\* combined string wins.
outpoint_from_input_info_unchecked(input) ==
    LET op1 == IF IsSome(input.prevout) THEN outpoint_from_str(Unwrap(input.prevout))
               ELSE None
    IN IF IsSome(input.prevout) /\ IsNone(op1) THEN Err("invalid prevout format")
       ELSE IF IsSome(input.txid) /\ IsNone(input.vout)
       THEN Err("\"txid\" field given in input without \"vout\" field")
       ELSE IF IsSome(op1) THEN Ok(Unwrap(op1))
       ELSE IF IsSome(input.txid)
       THEN Ok(OutPoint(Unwrap(input.txid), Unwrap(input.vout)))
       ELSE Err("No previous output provided in input.")

\* An outpoint check that also compares a vout given without txid with the
\* index of prevout, and takes a lone txid with index 0.
outpoint_from_input_info_vout_checked(input) ==
    LET op1 == IF IsSome(input.prevout) THEN outpoint_from_str(Unwrap(input.prevout))
               ELSE None
    IN IF IsSome(input.prevout) /\ IsNone(op1) THEN Err("invalid prevout format")
       ELSE IF IsSome(op1) /\ IsSome(input.vout) /\ Unwrap(op1).vout # Unwrap(input.vout)
       THEN Err("Conflicting prevout information in input.")
       ELSE IF IsSome(op1) THEN Ok(Unwrap(op1))
       ELSE IF IsSome(input.txid) /\ IsSome(input.vout)
       THEN Ok(OutPoint(Unwrap(input.txid), Unwrap(input.vout)))
       ELSE Err("No previous output provided in input.")

outpoint_from_input_info(input) ==
    LET op1 == IF IsSome(input.prevout) THEN outpoint_from_str(Unwrap(input.prevout))
               ELSE None
    IN IF IsSome(input.prevout) /\ IsNone(op1) THEN Err("invalid prevout format")
       ELSE IF IsSome(input.txid) /\ IsNone(input.vout)
       THEN Err("\"txid\" field given in input without \"vout\" field")
       ELSE LET op2 == IF IsSome(input.txid)
                       THEN Some(OutPoint(Unwrap(input.txid), Unwrap(input.vout)))
                       ELSE None
            IN IF IsSome(op1) /\ IsSome(op2)
               THEN (IF Unwrap(op1) # Unwrap(op2)
                     THEN Err("Conflicting prevout information in input.")
                     ELSE Ok(Unwrap(op1)))
               ELSE IF IsSome(op1) THEN Ok(Unwrap(op1))
               ELSE IF IsSome(op2) THEN Ok(Unwrap(op2))
               ELSE Err("No previous output provided in input.")

convert_outpoint_to_btc(p) == OutPoint(p.txid, p.vout)

(***************************************************************************)
(* Consensus serialization of the values a peg-in witness carries.         *)
(* Amounts are below 2^31 in the model.                                    *)
(***************************************************************************)
\* serialize(&u64): eight bytes, little-endian.
serialize_u64(v) ==
    <<v % 256, (v \div 256) % 256, (v \div 65536) % 256, v \div 16777216, 0, 0, 0, 0>>

\* deserialize::<u64>: exactly eight bytes.
deserialize_u64(b) ==
    IF Len(b) # 8 \/ \E i \in 5..8 : b[i] # 0 \/ b[4] > 127 THEN None
    ELSE Some(b[1] + 256 * b[2] + 65536 * b[3] + 16777216 * b[4])

\* serialize of a 32-byte hash or asset id: its bytes.
serialize_hash(h) == h

deserialize_hash(b) == IF Len(b) # 32 THEN None ELSE Some(b)

\* serialize(&Vec<u8>): the length as a compact-size integer, then the bytes.
serialize_vec(b) ==
    (IF Len(b) < 253 THEN <<Len(b)>> ELSE <<253, Len(b) % 256, Len(b) \div 256>>) \o b

(***************************************************************************)
(* Proofs and tweaks: opaque library values, held as their bytes.          *)
(***************************************************************************)
\* RangeProof::from_slice / SurjectionProof::from_slice: the library parses
\* the proof's header; the model rejects only the empty proof.
proof_from_slice(b) == IF Len(b) = 0 THEN None ELSE Some(b)

proof_serialize(p) == p

\* Tweak::from_slice: 32 bytes.
tweak_from_slice(b) == IF Len(b) # 32 THEN None ELSE Some(b)

(***************************************************************************)
(* tx.rs: decoding an input.                                               *)
(***************************************************************************)
AssetIssuance_get_info(self) ==
    [asset_blinding_nonce |-> Some(self.asset_blinding_nonce),
     asset_entropy |-> Some(self.asset_entropy),
     amount |-> Some(Value_get_info(self.amount)),
     inflation_keys |-> Some(Value_get_info(self.inflation_keys))]

\* AssetIssuance::default()
DefaultAssetIssuance ==
    [asset_blinding_nonce |-> Rep(32, 0), asset_entropy |-> Rep(32, 0),
     amount |-> Null, inflation_keys |-> Null]

\* TxIn::has_issuance: the issuance is not the null issuance.
has_issuance(txin) ==
    ~ (txin.asset_issuance.amount.tag = "Null"
       /\ txin.asset_issuance.inflation_keys.tag = "Null")

\* TxInWitness::default()
DefaultTxInWitness ==
    [amount_rangeproof |-> None, inflation_keys_rangeproof |-> None,
     script_witness |-> << >>, pegin_witness |-> << >>]

TxInWitness_is_empty(w) ==
    /\ IsNone(w.amount_rangeproof)
    /\ IsNone(w.inflation_keys_rangeproof)
    /\ w.script_witness = << >>
    /\ w.pegin_witness = << >>

TxInWitness_get_info(self) ==
    [amount_rangeproof |->
        IF IsSome(self.amount_rangeproof)
        THEN Some(proof_serialize(Unwrap(self.amount_rangeproof))) ELSE None,
     inflation_keys_rangeproof |->
        IF IsSome(self.inflation_keys_rangeproof)
        THEN Some(proof_serialize(Unwrap(self.inflation_keys_rangeproof))) ELSE None,
     script_witness |->
        IF Len(self.script_witness) > 0 THEN Some(self.script_witness) ELSE None,
     pegin_witness |->
        IF Len(self.pegin_witness) > 0 THEN Some(self.pegin_witness) ELSE None]

\* The hash of a block header, as an opaque value.
block_hash(header) == <<"hash">> \o header

\* deserialize::<bitcoin::Transaction>: a counterpart-chain transaction has
\* at least ten bytes; its descriptor is held as an opaque value.
mainchain_tx_info(b) == IF Len(b) < 10 THEN None ELSE Some(<<"bitcoin tx">> \o b)

\* TxIn::pegin_data: a peg-in input whose peg-in witness has the six
\* elements of a claim, each of the right shape.
pegin_data(txin) ==
    LET w == txin.witness.pegin_witness
    IN IF ~ txin.is_pegin \/ Len(w) # 6 THEN None
       ELSE IF \/ IsNone(deserialize_u64(w[1]))
               \/ IsNone(deserialize_hash(w[2]))
               \/ IsNone(deserialize_hash(w[3]))
               \/ Len(w[6]) < 80
       THEN None
       ELSE Some([outpoint |-> convert_outpoint_to_btc(txin.previous_output),
                  value |-> Unwrap(deserialize_u64(w[1])),
                  asset |-> Explicit(Unwrap(deserialize_hash(w[2]))),
                  genesis_hash |-> Unwrap(deserialize_hash(w[3])),
                  claim_script |-> w[4],
                  tx |-> w[5],
                  merkle_proof |-> w[6],
                  referenced_block |-> block_hash(SubSeq(w[6], 1, 80))])

PeginData_get_info(self) ==
    [outpoint |-> outpoint_to_string(self.outpoint),
     value |-> self.value,
     asset |-> Asset_get_info(self.asset),
     genesis_hash |-> self.genesis_hash,
     claim_script |-> self.claim_script,
     mainchain_tx_hex |-> self.tx,
     mainchain_tx |-> mainchain_tx_info(self.tx),
     merkle_proof |-> self.merkle_proof,
     referenced_block |-> self.referenced_block]

TxIn_get_info(self) ==
    [prevout |-> Some(outpoint_to_string(self.previous_output)),
     txid |-> Some(self.previous_output.txid),
     vout |-> Some(self.previous_output.vout),
     sequence |-> Some(self.sequence),
     script_sig |-> Some(InputScript_get_info(self.script_sig)),
     is_pegin |-> Some(self.is_pegin),
     has_issuance |-> Some(has_issuance(self)),
     asset_issuance |->
        IF has_issuance(self) THEN Some(AssetIssuance_get_info(self.asset_issuance))
        ELSE None,
     witness |->
        IF ~ TxInWitness_is_empty(self.witness) THEN Some(TxInWitness_get_info(self.witness))
        ELSE None,
     pegin_data |->
        IF IsSome(pegin_data(self)) THEN Some(PeginData_get_info(Unwrap(pegin_data(self))))
        ELSE None]

(***************************************************************************)
(* cmd/tx.rs: encoding an input.                                           *)
(***************************************************************************)
create_asset_issuance(info) ==
    IF IsNone(info.asset_blinding_nonce)
    THEN Err("Field \"asset_blinding_nonce\" is required for asset issuances.")
    ELSE IF IsNone(tweak_from_slice(Unwrap(info.asset_blinding_nonce)))
    THEN Err("Invalid \"asset_blinding_nonce\".")
    ELSE IF IsNone(info.asset_entropy)
    THEN Err("Field \"asset_entropy\" is required for asset issuances.")
    ELSE IF IsNone(bytes_32(Unwrap(info.asset_entropy)))
    THEN Err("Invalid size of \"asset_entropy\".")
    ELSE IF IsNone(info.amount)
    THEN Err("Field \"amount\" is required for asset issuances.")
    ELSE IF ~ create_confidential_value(Unwrap(info.amount)).ok
    THEN create_confidential_value(Unwrap(info.amount))
    ELSE IF IsNone(info.inflation_keys)
    THEN Err("Field \"inflation_keys\" is required for asset issuances.")
    ELSE IF ~ create_confidential_value(Unwrap(info.inflation_keys)).ok
    THEN create_confidential_value(Unwrap(info.inflation_keys))
    ELSE Ok([asset_blinding_nonce |-> Unwrap(tweak_from_slice(Unwrap(info.asset_blinding_nonce))),
             asset_entropy |-> Unwrap(bytes_32(Unwrap(info.asset_entropy))),
             amount |-> create_confidential_value(Unwrap(info.amount)).val,
             inflation_keys |-> create_confidential_value(Unwrap(info.inflation_keys)).val])

\* A faulty create_pegin_witness: the declared outpoint is parsed but never
\* compared with the previous output of the input.
create_pegin_witness_any_outpoint(pd, prevout) ==
    LET declared == bitcoin_outpoint_from_str(pd.outpoint)
        asset == create_confidential_asset(pd.asset)
    IN IF IsNone(declared) THEN Err("Invalid outpoint in field \"pegin_data\".")
       ELSE IF ~ asset.ok THEN asset
       ELSE IF asset.val.tag # "Explicit"
       THEN Err("Asset in \"pegin_data\" should be explicit.")
       ELSE Ok(<<serialize_u64(pd.value),
                 serialize_hash(asset.val.v),
                 serialize_hash(pd.genesis_hash),
                 serialize_vec(pd.claim_script),
                 serialize_vec(pd.mainchain_tx_hex),
                 serialize_vec(pd.merkle_proof)>>)

create_pegin_witness(pd, prevout) ==
    LET declared == bitcoin_outpoint_from_str(pd.outpoint)
        asset == create_confidential_asset(pd.asset)
    IN IF IsNone(declared) THEN Err("Invalid outpoint in field \"pegin_data\".")
       ELSE IF prevout # Unwrap(declared)
       THEN Err("Outpoint in \"pegin_data\" does not correspond to input value.")
       ELSE IF ~ asset.ok THEN asset
       ELSE IF asset.val.tag # "Explicit"
       THEN Err("Asset in \"pegin_data\" should be explicit.")
       ELSE Ok(<<serialize_u64(pd.value),
                 serialize_hash(asset.val.v),
                 serialize_hash(pd.genesis_hash),
                 serialize_vec(pd.claim_script),
                 serialize_vec(pd.mainchain_tx_hex),
                 serialize_vec(pd.merkle_proof)>>)

\* An optional proof of a witness descriptor: absent, parsed, or a panic.
create_proof(b, msg) ==
    IF IsNone(b) THEN Ok(None)
    ELSE IF IsNone(proof_from_slice(Unwrap(b))) THEN Err(msg)
    ELSE Ok(Some(Unwrap(proof_from_slice(Unwrap(b)))))

\* A faulty create_input_witness: pegin_data is lowered whenever it is given,
\* also when the witness descriptor carries its own peg-in witness.
create_input_witness_eager(info, pd, prevout) ==
    LET lowered == IF IsSome(pd)
                   THEN create_pegin_witness(Unwrap(pd), convert_outpoint_to_btc(prevout))
                   ELSE Ok(<< >>)
        pegin_witness ==
            IF ~ lowered.ok THEN lowered
            ELSE IF IsSome(info) /\ IsSome(Unwrap(info).pegin_witness)
            THEN Ok(Unwrap(Unwrap(info).pegin_witness))
            ELSE lowered
    IN IF ~ pegin_witness.ok THEN pegin_witness
       ELSE IF IsSome(info)
       THEN LET wi == Unwrap(info)
                amount == create_proof(wi.amount_rangeproof, "invalid rangeproof")
                keys == create_proof(wi.inflation_keys_rangeproof, "invalid rangeproof")
            IN IF ~ amount.ok THEN amount
               ELSE IF ~ keys.ok THEN keys
               ELSE Ok([amount_rangeproof |-> amount.val,
                        inflation_keys_rangeproof |-> keys.val,
                        script_witness |->
                            IF IsSome(wi.script_witness) THEN Unwrap(wi.script_witness)
                            ELSE << >>,
                        pegin_witness |-> pegin_witness.val])
       ELSE Ok([DefaultTxInWitness EXCEPT !.pegin_witness = pegin_witness.val])

create_input_witness(info, pd, prevout) ==
    LET pegin_witness ==
            IF IsSome(info) /\ IsSome(Unwrap(info).pegin_witness)
            THEN Ok(Unwrap(Unwrap(info).pegin_witness))
            ELSE IF IsSome(pd)
            THEN create_pegin_witness(Unwrap(pd), convert_outpoint_to_btc(prevout))
            ELSE Ok(<< >>)
    IN IF ~ pegin_witness.ok THEN pegin_witness
       ELSE IF IsSome(info)
       THEN LET wi == Unwrap(info)
                amount == create_proof(wi.amount_rangeproof, "invalid rangeproof")
                keys == create_proof(wi.inflation_keys_rangeproof, "invalid rangeproof")
            IN IF ~ amount.ok THEN amount
               ELSE IF ~ keys.ok THEN keys
               ELSE Ok([amount_rangeproof |-> amount.val,
                        inflation_keys_rangeproof |-> keys.val,
                        script_witness |->
                            IF IsSome(wi.script_witness) THEN Unwrap(wi.script_witness)
                            ELSE << >>,
                        pegin_witness |-> pegin_witness.val])
       ELSE Ok([DefaultTxInWitness EXCEPT !.pegin_witness = pegin_witness.val])

\* Sequence::from_height(sequence.try_into().unwrap()): the u32 of the
\* descriptor is narrowed to the u16 that from_height takes.
create_sequence(sequence) ==
    LET height == try_into_u16(IF IsSome(sequence) THEN Unwrap(sequence) ELSE U32(0, 0))
    IN IF IsNone(height)
       THEN Err("TryFromIntError")
       ELSE Ok(u32_from_u16(Unwrap(height)))

\* A faulty create_input: issuance data that is supplied is always encoded,
\* also when has_issuance is false.
create_input_data_first(input) ==
    LET flag == IsSome(input.asset_issuance)
                \/ (IsSome(input.has_issuance) /\ Unwrap(input.has_issuance))
        is_pegin == IF IsSome(input.is_pegin) THEN Unwrap(input.is_pegin)
                    ELSE IsSome(input.pegin_data)
        prevout == outpoint_from_input_info(input)
        script_sig == IF IsSome(input.script_sig) THEN create_script_sig(Unwrap(input.script_sig))
                      ELSE Ok(<< >>)
        sequence == create_sequence(input.sequence)
        asset_issuance == IF flag /\ IsSome(input.asset_issuance)
                          THEN create_asset_issuance(Unwrap(input.asset_issuance))
                          ELSE Ok(DefaultAssetIssuance)
    IN IF ~ prevout.ok THEN prevout
       ELSE IF ~ script_sig.ok THEN script_sig
       ELSE IF ~ sequence.ok THEN sequence
       ELSE IF ~ asset_issuance.ok THEN asset_issuance
       ELSE LET witness == create_input_witness(input.witness, input.pegin_data, prevout.val)
            IN IF ~ witness.ok THEN witness
               ELSE Ok([previous_output |-> prevout.val,
                        is_pegin |-> is_pegin,
                        script_sig |-> script_sig.val,
                        sequence |-> sequence.val,
                        asset_issuance |-> asset_issuance.val,
                        witness |-> witness.val])

create_input(input) ==
    LET flag == IF IsSome(input.has_issuance) THEN Unwrap(input.has_issuance)
                ELSE IsSome(input.asset_issuance)
        is_pegin == IF IsSome(input.is_pegin) THEN Unwrap(input.is_pegin)
                    ELSE IsSome(input.pegin_data)
        prevout == outpoint_from_input_info(input)
        script_sig == IF IsSome(input.script_sig) THEN create_script_sig(Unwrap(input.script_sig))
                      ELSE Ok(<< >>)
        sequence == create_sequence(input.sequence)
        asset_issuance == IF flag /\ IsSome(input.asset_issuance)
                          THEN create_asset_issuance(Unwrap(input.asset_issuance))
                          ELSE Ok(DefaultAssetIssuance)
    IN IF ~ prevout.ok THEN prevout
       ELSE IF ~ script_sig.ok THEN script_sig
       ELSE IF ~ sequence.ok THEN sequence
       ELSE IF ~ asset_issuance.ok THEN asset_issuance
       ELSE LET witness == create_input_witness(input.witness, input.pegin_data, prevout.val)
            IN IF ~ witness.ok THEN witness
               ELSE Ok([previous_output |-> prevout.val,
                        is_pegin |-> is_pegin,
                        script_sig |-> script_sig.val,
                        sequence |-> sequence.val,
                        asset_issuance |-> asset_issuance.val,
                        witness |-> witness.val])

(***************************************************************************)
(* tx.rs: decoding an output.                                              *)
(***************************************************************************)
TxOutWitness_get_info(self) ==
    [surjection_proof |->
        IF IsSome(self.surjection_proof)
        THEN Some(proof_serialize(Unwrap(self.surjection_proof))) ELSE None,
     rangeproof |->
        IF IsSome(self.rangeproof)
        THEN Some(proof_serialize(Unwrap(self.rangeproof))) ELSE None]

\* TxOutWitness::default()
DefaultTxOutWitness == [surjection_proof |-> None, rangeproof |-> None]

\* TxOut::pegout_data: an OP_RETURN output of explicit value whose script
\* pushes a genesis hash, a non-empty counterpart script and then only data.
pegout_data(txout) ==
    LET ins == Instructions(txout.script_pubkey)
    IN IF ~ is_op_return(txout.script_pubkey) \/ txout.value.tag # "Explicit" THEN None
       ELSE IF IsNone(ins) \/ Len(Unwrap(ins)) < 3 THEN None
       ELSE LET is == Unwrap(ins)
            IN IF \/ \E i \in 2..Len(is) : ~ is[i].push
                  \/ Len(is[2].data) # 32
                  \/ Len(is[3].data) = 0
               THEN None
               ELSE Some([value |-> txout.value.v,
                          asset |-> txout.asset,
                          genesis_hash |-> is[2].data,
                          script_pubkey |-> is[3].data,
                          extra_data |-> [i \in 1..(Len(is) - 3) |-> is[i + 3].data]])

PegoutData_get_info(self) ==
    [value |-> self.value,
     asset |-> Asset_get_info(self.asset),
     genesis_hash |-> self.genesis_hash,
     script_pub_key |-> OutputScript_get_info(self.script_pubkey, BTCNET),
     extra_data |-> self.extra_data]

\* A faulty TxOut::get_info: the script is not looked at to tell a fee output.
TxOut_get_info_any_script(self, network) ==
    LET exp_ass == self.asset.tag = "Explicit"
        exp_val == self.value.tag = "Explicit"
        is_fee == exp_ass /\ exp_val
    IN [script_pub_key |->
            Some(OutputScript_get_info(self.script_pubkey, address_params(network))),
        asset |-> Some(Asset_get_info(self.asset)),
        value |-> Some(Value_get_info(self.value)),
        nonce |-> Some(Nonce_get_info(self.nonce)),
        witness |-> Some(TxOutWitness_get_info(self.witness)),
        is_fee |-> Some(is_fee),
        pegout_data |->
            IF IsSome(pegout_data(self)) THEN Some(PegoutData_get_info(Unwrap(pegout_data(self))))
            ELSE None]

TxOut_get_info(self, network) ==
    LET exp_ass == self.asset.tag = "Explicit"
        exp_val == self.value.tag = "Explicit"
        is_fee == exp_ass /\ exp_val /\ Len(self.script_pubkey) = 0
    IN [script_pub_key |->
            Some(OutputScript_get_info(self.script_pubkey, address_params(network))),
        asset |-> Some(Asset_get_info(self.asset)),
        value |-> Some(Value_get_info(self.value)),
        nonce |-> Some(Nonce_get_info(self.nonce)),
        witness |-> Some(TxOutWitness_get_info(self.witness)),
        is_fee |-> Some(is_fee),
        pegout_data |->
            IF IsSome(pegout_data(self)) THEN Some(PegoutData_get_info(Unwrap(pegout_data(self))))
            ELSE None]

(***************************************************************************)
(* cmd/tx.rs: encoding an output.                                          *)
(***************************************************************************)
create_output_witness(w) ==
    LET surjection == create_proof(w.surjection_proof, "invalid surjection proof")
        range == create_proof(w.rangeproof, "invalid rangeproof")
    IN IF ~ surjection.ok THEN surjection
       ELSE IF ~ range.ok THEN range
       ELSE Ok([surjection_proof |-> surjection.val, rangeproof |-> range.val])

\* A faulty create_output_script: pegout_data is consulted first, also when
\* script_pub_key is given.
create_output_script_pegout_first(output, value, asset, used_network) ==
    IF IsSome(output.pegout_data)
    THEN LET pd == Unwrap(output.pegout_data)
             pd_asset == create_confidential_asset(pd.asset)
         IN IF value.tag # "Explicit"
            THEN Err("Explicit value is required for pegout data.")
            ELSE IF value.v # pd.value
            THEN Err("Value in \"pegout_data\" does not correspond to output value.")
            ELSE IF ~ pd_asset.ok THEN pd_asset
            ELSE IF asset # pd_asset.val
            THEN Err("Asset in \"pegout_data\" does not correspond to output value.")
            ELSE create_script_pubkey_from_pegout_data(pd)
    ELSE IF IsSome(output.script_pub_key)
    THEN LET spk == create_script_pubkey(Unwrap(output.script_pub_key), used_network)
         IN IF ~ spk.ok THEN spk ELSE Ok(spk.val.script)
    ELSE Ok(<< >>)

\* A faulty create_output_script: the asset of pegout_data is not compared
\* with the asset of the output.
create_output_script_any_asset(output, value, asset, used_network) ==
    IF IsSome(output.script_pub_key)
    THEN LET spk == create_script_pubkey(Unwrap(output.script_pub_key), used_network)
         IN IF ~ spk.ok THEN spk ELSE Ok(spk.val.script)
    ELSE IF IsSome(output.pegout_data)
    THEN LET pd == Unwrap(output.pegout_data)
             pd_asset == create_confidential_asset(pd.asset)
         IN IF value.tag # "Explicit"
            THEN Err("Explicit value is required for pegout data.")
            ELSE IF value.v # pd.value
            THEN Err("Value in \"pegout_data\" does not correspond to output value.")
            ELSE IF ~ pd_asset.ok THEN pd_asset
            ELSE create_script_pubkey_from_pegout_data(pd)
    ELSE Ok(<< >>)

\* The script of an output, after value and asset have been built.
create_output_script(output, value, asset, used_network) ==
    IF IsSome(output.script_pub_key)
    THEN LET spk == create_script_pubkey(Unwrap(output.script_pub_key), used_network)
         IN IF ~ spk.ok THEN spk ELSE Ok(spk.val.script)
    ELSE IF IsSome(output.pegout_data)
    THEN LET pd == Unwrap(output.pegout_data)
             pd_asset == create_confidential_asset(pd.asset)
         IN IF value.tag # "Explicit"
            THEN Err("Explicit value is required for pegout data.")
            ELSE IF value.v # pd.value
            THEN Err("Value in \"pegout_data\" does not correspond to output value.")
            ELSE IF ~ pd_asset.ok THEN pd_asset
            ELSE IF asset # pd_asset.val
            THEN Err("Asset in \"pegout_data\" does not correspond to output value.")
            ELSE create_script_pubkey_from_pegout_data(pd)
    ELSE Ok(<< >>)

create_output(output) ==
    LET used_network == None
        value == IF IsSome(output.value) THEN create_confidential_value(Unwrap(output.value))
                 ELSE Err("Field \"value\" is required for outputs.")
        asset == IF IsSome(output.asset) THEN create_confidential_asset(Unwrap(output.asset))
                 ELSE Err("Field \"asset\" is required for outputs.")
        nonce == IF IsSome(output.nonce) THEN create_confidential_nonce(Unwrap(output.nonce))
                 ELSE Ok(Null)
    IN IF ~ value.ok THEN value
       ELSE IF ~ asset.ok THEN asset
       ELSE IF ~ nonce.ok THEN nonce
       ELSE LET script == create_output_script(output, value.val, asset.val, used_network)
                witness == IF IsSome(output.witness)
                           THEN create_output_witness(Unwrap(output.witness))
                           ELSE Ok(DefaultTxOutWitness)
            IN IF ~ script.ok THEN script
               ELSE IF ~ witness.ok THEN witness
               ELSE Ok([asset |-> asset.val,
                        value |-> value.val,
                        nonce |-> nonce.val,
                        script_pubkey |-> script.val,
                        witness |-> witness.val])

(***************************************************************************)
(* tx.rs: decoding a transaction.  The identifiers are hashes, held as     *)
(* opaque values over what they hash; the sizes follow the consensus       *)
(* encoding.                                                               *)
(***************************************************************************)
RECURSIVE Sum(_)
Sum(ns) == IF ns = << >> THEN 0 ELSE Head(ns) + Sum(Tail(ns))

VarIntLen(n) == IF n < 253 THEN 1 ELSE 3

VarBytesLen(b) == VarIntLen(Len(b)) + Len(b)

StackLen(stack) ==
    VarIntLen(Len(stack)) + Sum([i \in 1..Len(stack) |-> VarBytesLen(stack[i])])

OptBytesLen(o) == IF IsSome(o) THEN VarBytesLen(Unwrap(o)) ELSE 1

ConfidentialLen(x, explicit) ==
    CASE x.tag = "Null" -> 1
      [] x.tag = "Explicit" -> 1 + explicit
      [] x.tag = "Confidential" -> 33

TxInBaseLen(txin) ==
    36 + VarBytesLen(txin.script_sig) + 4
    + (IF has_issuance(txin)
       THEN 64 + ConfidentialLen(txin.asset_issuance.amount, 8)
               + ConfidentialLen(txin.asset_issuance.inflation_keys, 8)
       ELSE 0)

TxInWitnessLen(w) ==
    OptBytesLen(w.amount_rangeproof) + OptBytesLen(w.inflation_keys_rangeproof)
    + StackLen(w.script_witness) + StackLen(w.pegin_witness)

TxOutBaseLen(txout) ==
    ConfidentialLen(txout.asset, 32) + ConfidentialLen(txout.value, 8)
    + ConfidentialLen(txout.nonce, 32) + VarBytesLen(txout.script_pubkey)

TxOutWitnessLen(w) == OptBytesLen(w.surjection_proof) + OptBytesLen(w.rangeproof)

has_witness(tx) ==
    \/ \E i \in 1..Len(tx.input) : ~ TxInWitness_is_empty(tx.input[i].witness)
    \/ \E i \in 1..Len(tx.output) : tx.output[i].witness # DefaultTxOutWitness

BaseLen(tx) ==
    4 + 1 + VarIntLen(Len(tx.input))
    + Sum([i \in 1..Len(tx.input) |-> TxInBaseLen(tx.input[i])])
    + VarIntLen(Len(tx.output))
    + Sum([i \in 1..Len(tx.output) |-> TxOutBaseLen(tx.output[i])]) + 4

WitnessLen(tx) ==
    IF has_witness(tx)
    THEN Sum([i \in 1..Len(tx.input) |-> TxInWitnessLen(tx.input[i].witness)])
         + Sum([i \in 1..Len(tx.output) |-> TxOutWitnessLen(tx.output[i].witness)])
    ELSE 0

\* serialize(self).len()
size(tx) == BaseLen(tx) + WitnessLen(tx)

weight(tx) == 4 * BaseLen(tx) + WitnessLen(tx)

\* The transaction without its witnesses, which is what the txid hashes.
Stripped(tx) ==
    [tx EXCEPT !.input = [i \in 1..Len(tx.input) |->
                             [tx.input[i] EXCEPT !.witness = DefaultTxInWitness]],
               !.output = [i \in 1..Len(tx.output) |->
                             [tx.output[i] EXCEPT !.witness = DefaultTxOutWitness]]]

txid(tx) == <<"txid", Stripped(tx)>>

wtxid(tx) == <<"wtxid", tx>>

Transaction_get_info(self, network) ==
    [txid |-> Some(txid(self)),
     wtxid |-> Some(wtxid(self)),
     hash |-> Some(wtxid(self)),
     version |-> Some(self.version),
     locktime |-> Some(self.lock_time),
     size |-> Some(size(self)),
     weight |-> Some(weight(self)),
     vsize |-> Some(weight(self) \div 4),
     inputs |-> Some([i \in 1..Len(self.input) |-> TxIn_get_info(self.input[i])]),
     outputs |-> Some([i \in 1..Len(self.output) |-> TxOut_get_info(self.output[i], network)])]

(***************************************************************************)
(* cmd/tx.rs: encoding a transaction.                                      *)
(***************************************************************************)
create_inputs(inputs) == [i \in 1..Len(inputs) |-> create_input(inputs[i])]

create_outputs(outputs) == [i \in 1..Len(outputs) |-> create_output(outputs[i])]

\* A faulty create_transaction: an absent inputs list is read as an empty one.
create_transaction_default_inputs(info) ==
    LET inputs == IF IsSome(info.inputs) THEN create_inputs(Unwrap(info.inputs)) ELSE << >>
        outputs == create_outputs(Unwrap(info.outputs))
    IN IF IsNone(info.version) THEN Err("Field \"version\" is required.")
       ELSE IF IsNone(info.locktime) THEN Err("Field \"locktime\" is required.")
       ELSE IF ~ AllOk(inputs) THEN FirstErr(inputs)
       ELSE IF IsNone(info.outputs) THEN Err("Field \"outputs\" is required.")
       ELSE IF ~ AllOk(outputs) THEN FirstErr(outputs)
       ELSE Ok([version |-> Unwrap(info.version),
                lock_time |-> Unwrap(info.locktime),
                input |-> [i \in 1..Len(inputs) |-> inputs[i].val],
                output |-> [i \in 1..Len(outputs) |-> outputs[i].val]])

\* A faulty create_transaction: a descriptor that carries a txid is rejected.
create_transaction_strict(info) ==
    LET inputs == create_inputs(Unwrap(info.inputs))
        outputs == create_outputs(Unwrap(info.outputs))
    IN IF IsSome(info.txid) THEN Err("Field \"txid\" must not be given.")
       ELSE IF IsNone(info.version) THEN Err("Field \"version\" is required.")
       ELSE IF IsNone(info.locktime) THEN Err("Field \"locktime\" is required.")
       ELSE IF IsNone(info.inputs) THEN Err("Field \"inputs\" is required.")
       ELSE IF ~ AllOk(inputs) THEN FirstErr(inputs)
       ELSE IF IsNone(info.outputs) THEN Err("Field \"outputs\" is required.")
       ELSE IF ~ AllOk(outputs) THEN FirstErr(outputs)
       ELSE Ok([version |-> Unwrap(info.version),
                lock_time |-> Unwrap(info.locktime),
                input |-> [i \in 1..Len(inputs) |-> inputs[i].val],
                output |-> [i \in 1..Len(outputs) |-> outputs[i].val]])

\* The transaction of create_transaction, once version, locktime and inputs
\* are known to be given: the inputs are built, then the outputs.
build_transaction(info, inputs, outputs) ==
    IF ~ AllOk(inputs) THEN FirstErr(inputs)
    ELSE IF IsNone(info.outputs) THEN Err("Field \"outputs\" is required.")
    ELSE IF ~ AllOk(outputs) THEN FirstErr(outputs)
    ELSE Ok([version |-> Unwrap(info.version),
             lock_time |-> Unwrap(info.locktime),
             input |-> [i \in 1..Len(inputs) |-> inputs[i].val],
             output |-> [i \in 1..Len(outputs) |-> outputs[i].val]])

create_transaction(info) ==
    IF IsNone(info.version) THEN Err("Field \"version\" is required.")
    ELSE IF IsNone(info.locktime) THEN Err("Field \"locktime\" is required.")
    ELSE IF IsNone(info.inputs) THEN Err("Field \"inputs\" is required.")
    ELSE build_transaction(info, create_inputs(Unwrap(info.inputs)),
                           create_outputs(Unwrap(info.outputs)))

(***************************************************************************)
(* block.rs: decoding block headers and blocks.                            *)
(***************************************************************************)
\* dynafed::Params, one of three shapes.
ParamsNull == [tag |-> "Null"]

ParamsCompact(signblockscript, signblock_witness_limit, elided_root) ==
    [tag |-> "Compact", signblockscript |-> signblockscript,
     signblock_witness_limit |-> signblock_witness_limit, elided_root |-> elided_root]

ParamsFull(signblockscript, signblock_witness_limit, fedpeg_program, fedpegscript, extension_space) ==
    [tag |-> "Full", signblockscript |-> signblockscript,
     signblock_witness_limit |-> signblock_witness_limit,
     fedpeg_program |-> fedpeg_program, fedpegscript |-> fedpegscript,
     extension_space |-> extension_space]

ParamsType(self) ==
    CASE self.tag = "Null" -> "null"
      [] self.tag = "Compact" -> "compact"
      [] self.tag = "Full" -> "full"

\* The accessors of dynafed::Params give a field only for the shapes that
\* have it.
Params_get_info(self) ==
    [params_type |-> ParamsType(self),
     signblockscript |->
        IF self.tag \in {"Compact", "Full"} THEN Some(self.signblockscript) ELSE None,
     signblock_witness_limit |->
        IF self.tag \in {"Compact", "Full"} THEN Some(self.signblock_witness_limit) ELSE None,
     elided_root |-> IF self.tag = "Compact" THEN Some(self.elided_root) ELSE None,
     fedpeg_program |-> IF self.tag = "Full" THEN Some(self.fedpeg_program) ELSE None,
     fedpeg_script |-> IF self.tag = "Full" THEN Some(self.fedpegscript) ELSE None,
     extension_space |-> IF self.tag = "Full" THEN Some(self.extension_space) ELSE None]

\* BlockExtData, one of two shapes.
Proof(challenge, solution) ==
    [tag |-> "Proof", challenge |-> challenge, solution |-> solution]

Dynafed(current, proposed, signblock_witness) ==
    [tag |-> "Dynafed", current |-> current, proposed |-> proposed,
     signblock_witness |-> signblock_witness]

BlockHeader(version, prev_blockhash, merkle_root, time, height, ext) ==
    [version |-> version, prev_blockhash |-> prev_blockhash, merkle_root |-> merkle_root,
     time |-> time, height |-> height, ext |-> ext]

\* BlockHeader::bitcoin_hash: a hash, held as an opaque value over what it
\* hashes, the header without the solution or the signblock witness.
bitcoin_hash(header) ==
    <<"block_hash",
      [header EXCEPT !.ext = IF header.ext.tag = "Proof"
                             THEN [header.ext EXCEPT !.solution = << >>]
                             ELSE [header.ext EXCEPT !.signblock_witness = << >>]]>>

\* Decoding that gives the proposed params as the current ones.
BlockHeader_get_info_swapped(self) ==
    [block_hash |-> Some(bitcoin_hash(self)),
     version |-> self.version,
     previous_block_hash |-> self.prev_blockhash,
     merkle_root |-> self.merkle_root,
     time |-> self.time,
     height |-> self.height,
     dynafed |-> self.ext.tag = "Dynafed",
     legacy_challenge |-> IF self.ext.tag = "Proof" THEN Some(self.ext.challenge) ELSE None,
     legacy_solution |-> IF self.ext.tag = "Proof" THEN Some(self.ext.solution) ELSE None,
     dynafed_current |->
        IF self.ext.tag = "Dynafed" THEN Some(Params_get_info(self.ext.proposed)) ELSE None,
     dynafed_proposed |->
        IF self.ext.tag = "Dynafed" THEN Some(Params_get_info(self.ext.current)) ELSE None,
     dynafed_witness |->
        IF self.ext.tag = "Dynafed" THEN Some(self.ext.signblock_witness) ELSE None]

BlockHeader_get_info(self) ==
    LET info == [block_hash |-> Some(bitcoin_hash(self)),
                 version |-> self.version,
                 previous_block_hash |-> self.prev_blockhash,
                 merkle_root |-> self.merkle_root,
                 time |-> self.time,
                 height |-> self.height,
                 dynafed |-> FALSE,
                 legacy_challenge |-> None,
                 legacy_solution |-> None,
                 dynafed_current |-> None,
                 dynafed_proposed |-> None,
                 dynafed_witness |-> None]
    IN IF self.ext.tag = "Proof"
       THEN [info EXCEPT !.dynafed = FALSE,
                         !.legacy_challenge = Some(self.ext.challenge),
                         !.legacy_solution = Some(self.ext.solution)]
       ELSE [info EXCEPT !.dynafed = TRUE,
                         !.dynafed_current = Some(Params_get_info(self.ext.current)),
                         !.dynafed_proposed = Some(Params_get_info(self.ext.proposed)),
                         !.dynafed_witness = Some(self.ext.signblock_witness)]

Block(header, txdata) == [header |-> header, txdata |-> txdata]

Block_get_info(self, network) ==
    [header |-> BlockHeader_get_info(self.header),
     transactions |->
        Some([i \in 1..Len(self.txdata) |-> Transaction_get_info(self.txdata[i], network)]),
     txids |-> None,
     raw_transactions |-> None]

\* block decode: the block descriptor printed, with the txids option or
\* without it.
decode_block(block, txids, network) ==
    IF txids
    THEN [header |-> BlockHeader_get_info(block.header),
          transactions |-> None,
          txids |-> Some([i \in 1..Len(block.txdata) |-> txid(block.txdata[i])]),
          raw_transactions |-> None]
    ELSE Block_get_info(block, network)

(***************************************************************************)
(* cmd/block.rs: encoding block headers and blocks.                        *)
(***************************************************************************)
\* create_params that wants the fields of the full shape whatever the shape.
create_params_all_fields(info) ==
    IF IsNone(info.fedpeg_program) THEN Err("fedpeg_program missing in full params")
    ELSE IF info.params_type = "null" THEN Ok(ParamsNull)
    ELSE IF IsNone(info.signblockscript) \/ IsNone(info.signblock_witness_limit)
    THEN Err("signblockscript missing in compact params")
    ELSE IF info.params_type = "compact"
    THEN IF IsNone(info.elided_root) THEN Err("elided_root missing in compact params")
         ELSE Ok(ParamsCompact(Unwrap(info.signblockscript),
                               Unwrap(info.signblock_witness_limit),
                               Unwrap(info.elided_root)))
    ELSE IF IsNone(info.fedpeg_script) \/ IsNone(info.extension_space)
    THEN Err("fedpeg_script missing in full params")
    ELSE Ok(ParamsFull(Unwrap(info.signblockscript), Unwrap(info.signblock_witness_limit),
                       Unwrap(info.fedpeg_program), Unwrap(info.fedpeg_script),
                       Unwrap(info.extension_space)))

create_params(info) ==
    CASE info.params_type = "null" -> Ok(ParamsNull)
      [] info.params_type = "compact" ->
            IF IsNone(info.signblockscript)
            THEN Err("signblockscript missing in compact params")
            ELSE IF IsNone(info.signblock_witness_limit)
            THEN Err("signblock_witness_limit missing in compact params")
            ELSE IF IsNone(info.elided_root)
            THEN Err("elided_root missing in compact params")
            ELSE Ok(ParamsCompact(Unwrap(info.signblockscript),
                                  Unwrap(info.signblock_witness_limit),
                                  Unwrap(info.elided_root)))
      [] info.params_type = "full" ->
            IF IsNone(info.signblockscript)
            THEN Err("signblockscript missing in full params")
            ELSE IF IsNone(info.signblock_witness_limit)
            THEN Err("signblock_witness_limit missing in full params")
            ELSE IF IsNone(info.fedpeg_program)
            THEN Err("fedpeg_program missing in full params")
            ELSE IF IsNone(info.fedpeg_script)
            THEN Err("fedpeg_script missing in full params")
            ELSE IF IsNone(info.extension_space)
            THEN Err("extension space missing in full params")
            ELSE Ok(ParamsFull(Unwrap(info.signblockscript),
                               Unwrap(info.signblock_witness_limit),
                               Unwrap(info.fedpeg_program),
                               Unwrap(info.fedpeg_script),
                               Unwrap(info.extension_space)))

\* The ext field of create_block_header.
create_block_ext(info) ==
    IF info.dynafed
    THEN IF IsNone(info.dynafed_current) THEN Err("missing current params")
         ELSE IF ~ create_params(Unwrap(info.dynafed_current)).ok
         THEN create_params(Unwrap(info.dynafed_current))
         ELSE IF IsNone(info.dynafed_proposed) THEN Err("missing proposed params")
         ELSE IF ~ create_params(Unwrap(info.dynafed_proposed)).ok
         THEN create_params(Unwrap(info.dynafed_proposed))
         ELSE IF IsNone(info.dynafed_witness) THEN Err("missing dynafed witness")
         ELSE Ok(Dynafed(create_params(Unwrap(info.dynafed_current)).val,
                         create_params(Unwrap(info.dynafed_proposed)).val,
                         Unwrap(info.dynafed_witness)))
    ELSE IF IsNone(info.legacy_challenge) THEN Err("missing challenge")
         ELSE IF IsNone(info.legacy_solution) THEN Err("missing solution")
         ELSE Ok(Proof(Unwrap(info.legacy_challenge), Unwrap(info.legacy_solution)))

create_block_header(info) ==
    LET ext == create_block_ext(info)
    IN IF ~ ext.ok THEN ext
       ELSE Ok(BlockHeader(info.version, info.previous_block_hash, info.merkle_root,
                           info.time, info.height, ext.val))

\* A raw transaction blob: the consensus bytes of a transaction, held as the
\* transaction they encode, and the bytes that follow them in the blob.
RawTransaction(tx, trailing) == [tx |-> tx, trailing |-> trailing]

\* deserialize(&r.0).expect("invalid raw transaction"): the transaction of the
\* blob; a blob that is not consumed whole is an error.
deserialize_transaction(raw) ==
    IF raw.trailing = << >> THEN Ok(raw.tx) ELSE Err("invalid raw transaction")

\* collect(): the list of the results rs, or the first panic among them.
collect_transactions(rs) ==
    IF ~ AllOk(rs) THEN FirstErr(rs) ELSE Ok([i \in 1..Len(rs) |-> rs[i].val])

\* The txdata field of the block that block create builds.
create_txdata(transactions, raw_transactions) ==
    IF IsSome(transactions) /\ IsSome(raw_transactions)
    THEN Err("Can't provide transactions both in JSON and raw.")
    ELSE IF IsNone(transactions) /\ IsNone(raw_transactions)
    THEN Err("No transactions provided.")
    ELSE IF IsSome(transactions)
    THEN collect_transactions([i \in 1..Len(Unwrap(transactions)) |->
                                    create_transaction(Unwrap(transactions)[i])])
    ELSE collect_transactions([i \in 1..Len(Unwrap(raw_transactions)) |->
                                    deserialize_transaction(Unwrap(raw_transactions)[i])])

\* The txdata field of a block assembly that takes the descriptors when both
\* lists are given and an empty list when neither is.
create_txdata_lenient(transactions, raw_transactions) ==
    IF IsSome(transactions)
    THEN collect_transactions([i \in 1..Len(Unwrap(transactions)) |->
                                    create_transaction(Unwrap(transactions)[i])])
    ELSE IF IsSome(raw_transactions)
    THEN collect_transactions([i \in 1..Len(Unwrap(raw_transactions)) |->
                                    deserialize_transaction(Unwrap(raw_transactions)[i])])
    ELSE Ok(<< >>)

\* Block { header, txdata }: the header is built first, then the txdata.
build_block(header, txdata) ==
    IF ~ header.ok THEN header
    ELSE IF ~ txdata.ok THEN txdata
    ELSE Ok(Block(header.val, txdata.val))

\* A block assembly that is lenient about which lists are given.
create_block_lenient(info) ==
    build_block(create_block_header(info.header),
                create_txdata_lenient(info.transactions, info.raw_transactions))

\* The block that block create builds from a block descriptor.
create_block(info) ==
    build_block(create_block_header(info.header),
                create_txdata(info.transactions, info.raw_transactions))

(***************************************************************************)
(* The consensus objects the model decodes.                                *)
(***************************************************************************)
TxidA == Rep(32, 170)

TxidB == [i \in 1..32 |-> i]

AssetA == Rep(32, 1)

GenesisG == Rep(32, 15)

Body == [i \in 1..32 |-> 32 + i]

Values == {Null, Explicit(5), Explicit(70000), Confidential(8, Body), Confidential(9, Body)}

Assets ==
    {Null, Explicit(AssetA), Explicit(LiquidBitcoinId),
     Confidential(10, Body), Confidential(11, Body)}

Nonces == {Null, Explicit(Body), Confidential(2, Body), Confidential(3, Body)}

ScriptTrue == <<81>>

ScriptP2SH == <<169, 20>> \o Rep(20, 7) \o <<135>>

ScriptP2WPKH == <<0, 20>> \o Rep(20, 9)

\* OP_RETURN <GenesisG> <ScriptTrue> <07>
ScriptPegout == <<106, 32>> \o GenesisG \o <<1, 81, 1, 7>>

OutPointA == OutPoint(TxidA, U32(0, 0))

OutPointB == OutPoint(TxidB, U32(65535, 65535))

Sequences == {U32(0, 0), U32(0, 65535), U32(1, 0), U32(65535, 65535)}

ProofP == <<96, 1, 2>>

IssuanceX ==
    [asset_blinding_nonce |-> Rep(32, 0), asset_entropy |-> Rep(32, 4),
     amount |-> Explicit(1000), inflation_keys |-> Confidential(9, Body)]

\* The peg-in witness of a claim: value, asset, genesis hash, claim script,
\* counterpart-chain transaction, Merkle proof.
PeginWitnessW ==
    <<serialize_u64(5), AssetA, GenesisG, ScriptTrue, Rep(10, 2), Rep(80, 3)>>

TxInWitnesses ==
    {DefaultTxInWitness,
     [amount_rangeproof |-> Some(ProofP), inflation_keys_rangeproof |-> None,
      script_witness |-> <<<< >>, <<1, 2>>>>, pegin_witness |-> << >>],
     [DefaultTxInWitness EXCEPT !.pegin_witness = PeginWitnessW],
     [DefaultTxInWitness EXCEPT !.pegin_witness = <<<<1>>>>]}

TxIn(previous_output, script_sig, sequence, is_pegin, asset_issuance, witness) ==
    [previous_output |-> previous_output, is_pegin |-> is_pegin,
     script_sig |-> script_sig, sequence |-> sequence,
     asset_issuance |-> asset_issuance, witness |-> witness]

\* Every sequence number on a plain input, and every combination of the
\* peg-in flag, issuance and witness on the two outpoints.
TxIns ==
    {TxIn(OutPointA, << >>, seq, FALSE, DefaultAssetIssuance, DefaultTxInWitness) :
        seq \in Sequences}
    \cup {TxIn(op[1], op[2], U32(0, 0), pg, iss, w) :
                op \in {<<OutPointA, << >>>>, <<OutPointB, ScriptTrue>>},
                pg \in BOOLEAN, iss \in {DefaultAssetIssuance, IssuanceX},
                w \in TxInWitnesses}

SampleTxIns ==
    {TxIn(OutPointA, << >>, U32(0, 65535), FALSE, DefaultAssetIssuance, DefaultTxInWitness),
     TxIn(OutPointB, ScriptTrue, U32(65535, 65535), TRUE, IssuanceX,
          [DefaultTxInWitness EXCEPT !.pegin_witness = PeginWitnessW])}

TxOutWitnesses ==
    {DefaultTxOutWitness, [surjection_proof |-> Some(ProofP), rangeproof |-> Some(ProofP)]}

TxOut(asset, value, nonce, script, witness) ==
    [asset |-> asset, value |-> value, nonce |-> nonce, script_pubkey |-> script,
     witness |-> witness]

\* Every combination of asset, value and script, and every nonce and witness.
TxOuts ==
    {TxOut(a, v, Null, s, DefaultTxOutWitness) :
        a \in Assets \ {Confidential(11, Body)},
        v \in Values \ {Explicit(70000), Confidential(8, Body)},
        s \in {<< >>, ScriptTrue, ScriptP2SH, ScriptPegout}}
    \cup {TxOut(Explicit(AssetA), Explicit(5), n, ScriptP2WPKH, w) :
                n \in Nonces, w \in TxOutWitnesses}

SampleTxOuts ==
    {TxOut(Confidential(10, Body), Confidential(9, Body), Confidential(2, Body), ScriptP2SH,
           [surjection_proof |-> Some(ProofP), rangeproof |-> Some(ProofP)]),
     TxOut(Explicit(AssetA), Explicit(5), Null, ScriptPegout, DefaultTxOutWitness)}

Transaction(input, output) ==
    [version |-> 2, lock_time |-> 500, input |-> input, output |-> output]

\* Every input with a few outputs, and every output with a few inputs.
Transactions ==
    {Transaction(<<i>>, os) : i \in TxIns, os \in SeqUpTo(SampleTxOuts, MaxOutputs)}
    \cup {Transaction(is, os) :
                is \in SeqUpTo(SampleTxIns, MaxInputs), os \in SeqUpTo(SampleTxOuts, MaxOutputs)}
    \cup {Transaction(is, <<o>>) : is \in SeqUpTo(SampleTxIns, MaxInputs), o \in TxOuts}

(***************************************************************************)
(* The descriptors the model encodes: what a user may write by hand.       *)
(***************************************************************************)
ValueInfo(type_, value, commitment) ==
    [type_ |-> type_, value |-> value, commitment |-> commitment]

AssetInfo(type_, asset, commitment, label) ==
    [type_ |-> type_, asset |-> asset, commitment |-> commitment, label |-> label]

NonceInfo(type_, nonce, commitment) ==
    [type_ |-> type_, nonce |-> nonce, commitment |-> commitment]

ScriptInfo(hex, asm_, address) ==
    [hex |-> hex, asm |-> asm_, type_ |-> None, address |-> address]

AddressLiquid == Address("LIQUID", "p2sh", Rep(20, 7))

AddressRegtest == Address("ELEMENTS", "p2wpkh", Rep(20, 9))

AddressTestnet == Address("LIQUID_TESTNET", "p2sh", Rep(20, 7))

AddressBitcoin == Address(BTCNET, "p2pkh", Rep(20, 5))

PrevoutA == outpoint_to_string(OutPointA)

PrevoutStrings ==
    {PrevoutA,
     outpoint_to_string(OutPoint(TxidA, U32(0, 1))),
     outpoint_to_string(OutPointB),
     <<"[elements]">> \o PrevoutA,
     hash_to_string(TxidA) \o <<":", "0", "1">>,
     hash_to_string(TxidA)}

NoInput ==
    [prevout |-> None, txid |-> None, vout |-> None, script_sig |-> None,
     sequence |-> None, is_pegin |-> None, has_issuance |-> None,
     asset_issuance |-> None, witness |-> None, pegin_data |-> None]

\* The inputs that differ in how they name the previous output.
OutpointInputs ==
    {[NoInput EXCEPT !.prevout = p, !.txid = t, !.vout = v] :
        p \in {None} \cup {Some(x) : x \in PrevoutStrings},
        t \in {None, Some(TxidA), Some(TxidB)},
        v \in {None, Some(U32(0, 0)), Some(U32(0, 1))}}

PeginDataInfo(outpoint, asset) ==
    [outpoint |-> outpoint, value |-> 5, asset |-> asset, genesis_hash |-> GenesisG,
     claim_script |-> ScriptTrue, mainchain_tx_hex |-> Rep(10, 2), mainchain_tx |-> None,
     merkle_proof |-> Rep(80, 3), referenced_block |-> block_hash(Rep(80, 3))]

ExplicitAssetA == AssetInfo("explicit", Some(AssetA), None, None)

PeginDataInfos ==
    {PeginDataInfo(PrevoutA, ExplicitAssetA),
     PeginDataInfo(outpoint_to_string(OutPointB), ExplicitAssetA),
     PeginDataInfo(PrevoutA, AssetInfo("confidential", None, Some(<<10>> \o Body), None)),
     PeginDataInfo(hash_to_string(TxidA), ExplicitAssetA)}

InputWitnessInfo(amount_rangeproof, script_witness, pegin_witness) ==
    [amount_rangeproof |-> amount_rangeproof, inflation_keys_rangeproof |-> None,
     script_witness |-> script_witness, pegin_witness |-> pegin_witness]

InputWitnessInfos ==
    {InputWitnessInfo(rp, sw, pw) :
        rp \in {None, Some(ProofP), Some(<< >>)},
        sw \in {None, Some(<<<<1, 2>>>>)},
        pw \in {None, Some(<< >>), Some(<<<<9>>>>), Some(PeginWitnessW)}}

AssetIssuanceInfos ==
    {AssetIssuance_get_info(IssuanceX),
     [AssetIssuance_get_info(IssuanceX) EXCEPT !.amount = None]}

InputInfos ==
    {[NoInput EXCEPT !.prevout = po[1], !.txid = po[2], !.vout = po[3],
                     !.script_sig = ss, !.sequence = seq, !.is_pegin = pg,
                     !.has_issuance = hi, !.asset_issuance = ai,
                     !.witness = w, !.pegin_data = pd] :
        po \in {<<Some(PrevoutA), None, None>>, <<None, Some(TxidA), Some(U32(0, 0))>>,
                <<None, None, None>>},
        ss \in {None, Some([hex |-> Some(ScriptTrue), asm |-> None])},
        seq \in {None, Some(U32(0, 5)), Some(U32(65535, 65535))},
        pg \in {None, Some(TRUE), Some(FALSE)},
        hi \in {None, Some(TRUE), Some(FALSE)},
        ai \in {None} \cup {Some(x) : x \in AssetIssuanceInfos},
        w \in {None, Some(InputWitnessInfo(None, None, None)),
               Some(InputWitnessInfo(Some(ProofP), None, Some(<<<<9>>>>)))},
        pd \in {None, Some(PeginDataInfo(PrevoutA, ExplicitAssetA)),
                Some(PeginDataInfo(outpoint_to_string(OutPointB), ExplicitAssetA))}}

ExtraDatas == SeqUpTo({<< >>, <<7>>, Rep(76, 1)}, MaxExtra)

PegoutScriptInfos ==
    {ScriptInfo(Some(ScriptTrue), None, None),
     ScriptInfo(Some(ScriptP2SH), Some(asm(ScriptP2SH)), Some(AddressBitcoin)),
     ScriptInfo(None, None, Some(AddressBitcoin)),
     ScriptInfo(None, Some(asm(ScriptTrue)), Some(AddressBitcoin)),
     ScriptInfo(None, None, None)}

PegoutDataInfo(value, asset, script_pub_key, extra_data) ==
    [value |-> value, asset |-> asset, genesis_hash |-> GenesisG,
     script_pub_key |-> script_pub_key, extra_data |-> extra_data]

PegoutDataInfos ==
    {PegoutDataInfo(5, ExplicitAssetA, spk, ed) : spk \in PegoutScriptInfos, ed \in ExtraDatas}

OutputScriptInfos ==
    {ScriptInfo(Some(ScriptTrue), Some(asm(ScriptP2SH)), Some(AddressLiquid)),
     ScriptInfo(None, Some(asm(ScriptTrue)), Some(AddressLiquid)),
     ScriptInfo(None, None, Some(AddressLiquid)),
     ScriptInfo(None, None, None)}

AssetInfos ==
    {Asset_get_info(a) : a \in Assets} \cup {AssetInfo("explicit", None, None, None)}

ValueInfos ==
    {Value_get_info(v) : v \in Values} \cup {ValueInfo("explicit", None, None)}

NonceInfos ==
    {Nonce_get_info(n) : n \in Nonces} \cup {NonceInfo("explicit", Some(<<1, 2>>), None)}

OutputWitnessInfos ==
    {[surjection_proof |-> None, rangeproof |-> None],
     [surjection_proof |-> Some(ProofP), rangeproof |-> Some(<< >>)]}

OutputInfo(script_pub_key, asset, value, nonce, witness, pegout) ==
    [script_pub_key |-> script_pub_key, asset |-> asset, value |-> value, nonce |-> nonce,
     witness |-> witness, is_fee |-> None, pegout_data |-> pegout]

OutputInfos ==
    {OutputInfo(spk, a, v, n, w, pd) :
        spk \in {None} \cup {Some(x) : x \in OutputScriptInfos},
        a \in {None}
               \cup {Some(x) : x \in AssetInfos \ {Asset_get_info(Confidential(11, Body)),
                                                    Asset_get_info(Null)}},
        v \in {None}
               \cup {Some(x) : x \in ValueInfos \ {Value_get_info(Confidential(8, Body)),
                                                    Value_get_info(Null)}},
        n \in {None, Some(NonceInfo("explicit", Some(<<1, 2>>), None))},
        w \in {None} \cup {Some(x) : x \in OutputWitnessInfos},
        pd \in {None}
               \cup {Some(PegoutDataInfo(5, ExplicitAssetA, spk2, <<<<7>>>>)) :
                        spk2 \in {ScriptInfo(Some(ScriptTrue), None, None),
                                  ScriptInfo(None, Some(asm(ScriptTrue)), Some(AddressBitcoin)),
                                  ScriptInfo(None, None, None)}}
               \cup {Some(PegoutDataInfo(70000, Asset_get_info(Explicit(LiquidBitcoinId)),
                                         ScriptInfo(Some(ScriptTrue), None, None), << >>))}}

\* Outputs of a whole transaction: scripts by address on the three address
\* parameter sets, a script in hex, a fee output and an output without value.
SampleOutputInfos ==
    {OutputInfo(spk, Some(ExplicitAssetA), Some(ValueInfo("explicit", Some(5), None)),
                None, None, None) :
        spk \in {Some(ScriptInfo(None, None, Some(AddressLiquid))),
                 Some(ScriptInfo(None, None, Some(AddressRegtest))),
                 Some(ScriptInfo(None, None, Some(AddressTestnet))),
                 Some(ScriptInfo(Some(ScriptTrue), None, Some(AddressLiquid)))}}
    \cup {OutputInfo(None, Some(ExplicitAssetA), None, None, None, None)}

SampleInputInfos ==
    {[NoInput EXCEPT !.txid = Some(TxidB), !.vout = Some(U32(0, 1)),
                     !.sequence = Some(U32(0, 7))],
     NoInput}

TransactionInfo(version, locktime, inputs, outputs) ==
    [txid |-> None, wtxid |-> None, hash |-> None, size |-> None, weight |-> None,
     vsize |-> None, version |-> version, locktime |-> locktime,
     inputs |-> inputs, outputs |-> outputs]

TransactionInfos ==
    {TransactionInfo(v, l, is, os) :
        v \in {None, Some(2)}, l \in {None, Some(500)},
        is \in {None} \cup {Some(x) : x \in SeqUpTo(SampleInputInfos, MaxInputs)},
        os \in {None} \cup {Some(x) : x \in SeqUpTo(SampleOutputInfos, MaxOutputs)}}

\* What the derived fields of a hand-written descriptor may hold: nothing, or
\* values that belong to no transaction, all of them or some.
InformationalFields ==
    {[txid |-> None, wtxid |-> None, hash |-> None,
      size |-> None, weight |-> None, vsize |-> None],
     [txid |-> Some(TxidA), wtxid |-> Some(TxidB), hash |-> Some(TxidA),
      size |-> Some(0), weight |-> Some(7), vsize |-> Some(100000)],
     [txid |-> Some(TxidB), wtxid |-> None, hash |-> None,
      size |-> None, weight |-> Some(1), vsize |-> None]}

WithInformational(info, extra) ==
    [info EXCEPT !.txid = extra.txid, !.wtxid = extra.wtxid, !.hash = extra.hash,
                 !.size = extra.size, !.weight = extra.weight, !.vsize = extra.vsize]

\* Script descriptors of outputs with every combination of sources, and the
\* networks the accumulator may hold when one is encoded.
OutputScriptDescriptors ==
    {[ScriptInfo(hex, asm_, address) EXCEPT !.type_ = type_] :
        hex \in {None, Some(ScriptTrue)},
        asm_ \in {None, Some(asm(ScriptP2SH))},
        address \in {None, Some(AddressLiquid), Some(AddressRegtest), Some(AddressTestnet)},
        type_ \in {None, Some("p2sh")}}

UsedNetworks == {None} \cup {Some(n) : n \in Networks}

InputScriptDescriptors ==
    {[hex |-> hex, asm |-> asm_] :
        hex \in {None, Some(ScriptTrue), Some(<< >>)},
        asm_ \in {None, Some(asm(ScriptTrue))}}

\* Transactions per block (descriptor or raw).
MaxTxs == 2

\* The dynafed parameters the sample headers carry, one or two of each shape.
SampleParams ==
    {ParamsNull,
     ParamsCompact(ScriptTrue, 1000, TxidA),
     ParamsFull(ScriptP2SH, 7, ScriptP2WPKH, ScriptTrue, <<>>),
     ParamsFull(ScriptTrue, 0, ScriptTrue, ScriptP2SH, <<<<1, 2>>, <<>>>>)}

BlockExtDatas ==
    {Proof(ScriptTrue, <<>>), Proof(ScriptP2SH, <<81, 81>>)}
    \cup {Dynafed(current, proposed, witness) :
            current \in SampleParams, proposed \in SampleParams,
            witness \in {<<>>, <<<<1>>, <<>>>>}}

BlockHeaders ==
    {BlockHeader(536870912, TxidA, TxidB, 1600000000, height, ext) :
        height \in {0, 65535}, ext \in BlockExtDatas}

\* Hand-written params descriptors: every shape with every field given or not.
ParamsInfos ==
    {[params_type |-> t, signblockscript |-> s, signblock_witness_limit |-> l,
      elided_root |-> r, fedpeg_program |-> p, fedpeg_script |-> f,
      extension_space |-> e] :
        t \in {"null", "compact", "full"},
        s \in {None, Some(ScriptTrue)},
        l \in {None, Some(1000)},
        r \in {None, Some(TxidA)},
        p \in {None, Some(ScriptP2WPKH)},
        f \in {None, Some(ScriptP2SH)},
        e \in {None, Some(<<<<1, 2>>>>)}}

SampleParamsInfos ==
    {None,
     Some(Params_get_info(ParamsNull)),
     Some(Params_get_info(ParamsCompact(ScriptTrue, 1000, TxidA))),
     Some([Params_get_info(ParamsCompact(ScriptTrue, 1000, TxidA))
              EXCEPT !.params_type = "full"])}

\* Hand-written header descriptors.
BlockHeaderInfos ==
    {[block_hash |-> h, version |-> 536870912, previous_block_hash |-> TxidA,
      merkle_root |-> TxidB, time |-> 1600000000, height |-> 1,
      dynafed |-> d, legacy_challenge |-> c, legacy_solution |-> s,
      dynafed_current |-> cur, dynafed_proposed |-> prop, dynafed_witness |-> w] :
        h \in {None, Some(<<"block_hash", "junk">>)},
        d \in BOOLEAN,
        c \in {None, Some(ScriptTrue)},
        s \in {None, Some(<<81, 81>>)},
        cur \in SampleParamsInfos,
        prop \in SampleParamsInfos,
        w \in {None, Some(<<<<1>>, <<>>>>)}}

SampleBlockHeaderInfos ==
    {BlockHeader_get_info(BlockHeader(536870912, TxidA, TxidB, 1600000000, 1,
                                      Proof(ScriptTrue, <<81>>))),
     [BlockHeader_get_info(BlockHeader(536870912, TxidA, TxidB, 1600000000, 1,
                                       Proof(ScriptTrue, <<81>>)))
         EXCEPT !.legacy_solution = None]}

\* The transaction descriptors of a block descriptor: one that encodes and
\* one that does not.
SampleTransactionInfos ==
    {TransactionInfo(Some(2), Some(0), Some(<<>>), Some(<<>>)),
     TransactionInfo(Some(1), Some(7), Some(<<>>), Some(<<>>)),
     TransactionInfo(Some(2), None, Some(<<>>), Some(<<>>))}

\* Raw blobs: two that deserialize and one with trailing bytes.
RawTransactions ==
    {RawTransaction(Transaction(<<>>, <<>>), <<>>),
     RawTransaction([Transaction(<<>>, <<>>) EXCEPT !.lock_time = 7], <<>>),
     RawTransaction(Transaction(<<>>, <<>>), <<0>>)}

BlockInfos ==
    {[header |-> h, transactions |-> t, txids |-> i, raw_transactions |-> r] :
        h \in SampleBlockHeaderInfos,
        t \in {None} \cup {Some(s) : s \in SeqUpTo(SampleTransactionInfos, MaxTxs)},
        i \in {None, Some(<<TxidA>>)},
        r \in {None} \cup {Some(s) : s \in SeqUpTo(RawTransactions, MaxTxs)}}

\* The transactions of the sample blocks.
BlockTransactions ==
    {Transaction(is, os) : is \in SeqUpTo(SampleTxIns, 1), os \in SeqUpTo(SampleTxOuts, 1)}

\* Blocks of up to MaxTxs transactions under a Proof and a Dynafed header.
Blocks ==
    {Block(BlockHeader(536870912, TxidA, TxidB, 1600000000, 1, ext), txdata) :
        ext \in {Proof(ScriptTrue, <<81>>),
                 Dynafed(ParamsNull, ParamsCompact(ScriptTrue, 1000, TxidA), <<<<1>>>>)},
        txdata \in SeqUpTo(BlockTransactions, MaxTxs)}

\* Hand-written tri-state descriptors: every type with every payload field
\* given or not, the commitment well formed or not.
ConfidentialTypes == {"null", "explicit", "confidential"}

HandValueInfos ==
    {ValueInfo(t, v, c) :
        t \in ConfidentialTypes, v \in {None, Some(5)},
        c \in {None, Some(<<8>> \o Body), Some(<<1, 2>>)}}

HandAssetInfos ==
    {AssetInfo(t, a, c, l) :
        t \in ConfidentialTypes, a \in {None, Some(AssetA), Some(LiquidBitcoinId)},
        c \in {None, Some(<<10>> \o Body), Some(<<1, 2>>)},
        l \in {None, Some("liquid_bitcoin")}}

HandNonceInfos ==
    {NonceInfo(t, n, c) :
        t \in ConfidentialTypes, n \in {None, Some(Body), Some(<<1, 2>>)},
        c \in {None, Some(<<2>> \o Body), Some(<<1, 2>>)}}

(***************************************************************************)
(* JSON text and serde_json::Value.  A text is a sequence of tokens: white  *)
(* space between tokens, the punctuation of objects, string literals and   *)
(* number literals.  A Value is a string, a number or an object; an object *)
(* is the sequence of its entries, in the order the map iterates them.     *)
(***************************************************************************)
Ws == [t |-> "ws", v |-> " "]

Punct(c) == [t |-> "punct", v |-> c]

Str(s) == [t |-> "str", v |-> s]

Num(n) == [t |-> "num", v |-> n]

JsonString(s) == [t |-> "str", v |-> s, m |-> << >>]

JsonNumber(n) == [t |-> "num", v |-> n, m |-> << >>]

JsonObject(entries) == [t |-> "obj", v |-> "", m |-> entries]

Entry(k, val) == [k |-> k, val |-> val]

\* The keys of the sample texts in byte order, the order of a BTreeMap.
KeyOrder ==
    <<"entity", "domain", "issuer_pubkey", "name", "precision", "ticker", "version",
      "website">>

KeyRank(k) == CHOOSE i \in 1..Len(KeyOrder) : KeyOrder[i] = k

HasKey(map, k) == \E i \in 1..Len(map) : map[i].k = k

Map_get(map, k) == (CHOOSE i \in 1..Len(map) : map[i].k = k)

\* Map::insert: the value of a key already present is replaced where it
\* stands; a new key goes last when the map keeps insertion order, and to
\* its sorted place otherwise.
Map_insert(map, k, val, preserve_order) ==
    IF HasKey(map, k)
    THEN [i \in 1..Len(map) |-> IF map[i].k = k THEN Entry(k, val) ELSE map[i]]
    ELSE IF preserve_order THEN Append(map, Entry(k, val))
    ELSE LET before == SelectSeq(map, LAMBDA e : KeyRank(e.k) < KeyRank(k))
             after == SelectSeq(map, LAMBDA e : KeyRank(e.k) > KeyRank(k))
         IN before \o <<Entry(k, val)>> \o after

ParseFail == [ok |-> FALSE, val |-> JsonString(""), rest |-> << >>]

ParseOk(val, rest) == [ok |-> TRUE, val |-> val, rest |-> rest]

RECURSIVE parse_value(_, _)
RECURSIVE parse_members(_, _, _)
RECURSIVE parse_member_end(_, _, _, _)
\* After "key : value": a comma and the next member, or the closing brace.
parse_member_end(r, map, k, preserve_order) ==
    IF ~ r.ok \/ r.rest = << >> THEN ParseFail
    ELSE IF Head(r.rest) = Punct("}")
    THEN ParseOk(JsonObject(Map_insert(map, k, r.val, preserve_order)), Tail(r.rest))
    ELSE IF Head(r.rest) = Punct(",")
    THEN parse_members(Tail(r.rest), Map_insert(map, k, r.val, preserve_order),
                       preserve_order)
    ELSE ParseFail

parse_members(toks, map, preserve_order) ==
    IF Len(toks) < 3 \/ toks[1].t # "str" \/ toks[2] # Punct(":") THEN ParseFail
    ELSE parse_member_end(parse_value(SubSeq(toks, 3, Len(toks)), preserve_order),
                          map, toks[1].v, preserve_order)

parse_value(toks, preserve_order) ==
    IF toks = << >> THEN ParseFail
    ELSE IF Head(toks).t = "str" THEN ParseOk(JsonString(Head(toks).v), Tail(toks))
    ELSE IF Head(toks).t = "num" THEN ParseOk(JsonNumber(Head(toks).v), Tail(toks))
    ELSE IF Head(toks) # Punct("{") THEN ParseFail
    ELSE IF Len(toks) >= 2 /\ toks[2] = Punct("}")
    THEN ParseOk(JsonObject(<< >>), SubSeq(toks, 3, Len(toks)))
    ELSE parse_members(Tail(toks), << >>, preserve_order)

\* The text without the white space between its tokens.
skip_whitespace(text) == SelectSeq(text, LAMBDA tok : tok.t # "ws")

json_parsed(r) == IF r.ok /\ r.rest = << >> THEN Some(r.val) ELSE None

\* str::parse::<serde_json::Value>: one value, and nothing after it.
json_from_str(text, preserve_order) ==
    json_parsed(parse_value(skip_whitespace(text), preserve_order))

RECURSIVE json_to_string(_)
RECURSIVE entries_to_string(_)
entries_to_string(map) ==
    IF map = << >> THEN << >>
    ELSE (IF Len(map) > 1 THEN entries_to_string(SubSeq(map, 1, Len(map) - 1)) \o <<Punct(",")>>
          ELSE << >>)
         \o <<Str(map[Len(map)].k), Punct(":")>> \o json_to_string(map[Len(map)].val)

\* serde_json::to_string and to_writer: the compact form.
json_to_string(val) ==
    IF val.t = "str" THEN <<Str(val.v)>>
    ELSE IF val.t = "num" THEN <<Num(val.v)>>
    ELSE <<Punct("{")>> \o entries_to_string(val.m) \o <<Punct("}")>>

(***************************************************************************)
(* Asset contracts and asset ids: src/assets.rs, cmd/assets.rs.            *)
(* A hash is the record of what was hashed.                                *)
(***************************************************************************)
\* A contract hash parsed from hex.
ContractHash_from_bytes(b) == [bytes |-> b, preimage |-> None]

\* ContractHash::hash, and an engine fed the same bytes.
ContractHash_hash(raw) == [bytes |-> << >>, preimage |-> Some(raw)]

\* An entropy parsed from hex.
Midstate_from_bytes(b) == [bytes |-> b, prevout |-> None, contract_hash |-> None]

generate_asset_entropy(prevout, contract_hash) ==
    [bytes |-> << >>, prevout |-> Some(prevout), contract_hash |-> Some(contract_hash)]

AssetId_from_entropy(entropy) == [entropy |-> entropy]

\* The contract hash of the arguments of asset-id, entropy not given.
asset_contract_hash(m) ==
    IF IsSome(m.contract_hash)
    THEN (IF IsNone(hash_from_str(Unwrap(m.contract_hash)))
          THEN Err("invalid contract hash hex")
          ELSE Ok(ContractHash_from_bytes(Unwrap(hash_from_str(Unwrap(m.contract_hash))))))
    ELSE IF IsSome(m.contract_json)
    THEN (IF IsNone(json_from_str(Unwrap(m.contract_json), m.preserve_order))
          THEN Err("invalid contract JSON")
          ELSE Ok(ContractHash_hash(json_to_string(
                      Unwrap(json_from_str(Unwrap(m.contract_json), m.preserve_order))))))
    ELSE Err("Not enough information provided, use --help.")

asset_entropy_generated(prevout, contract_hash) ==
    IF ~ contract_hash.ok THEN contract_hash
    ELSE Ok(generate_asset_entropy(Unwrap(prevout), contract_hash.val))

\* The entropy of the arguments of asset-id.
asset_entropy(m) ==
    IF IsSome(m.entropy)
    THEN (IF IsSome(m.prevout) \/ IsSome(m.contract_hash) \/ IsSome(m.contract_json)
          THEN Err("If --entropy is given, no other arguments should be provided")
          ELSE IF IsNone(hash_from_str(Unwrap(m.entropy))) THEN Err("invalid entropy hex")
          ELSE Ok(Midstate_from_bytes(Unwrap(hash_from_str(Unwrap(m.entropy))))))
    ELSE IF IsNone(m.prevout) THEN Err("Not enough information provided, use --help.")
    ELSE IF IsNone(outpoint_from_str(Unwrap(m.prevout))) THEN Err("invalid prevout value")
    ELSE asset_entropy_generated(outpoint_from_str(Unwrap(m.prevout)), asset_contract_hash(m))

\* A faulty asset-id: the entropy is parsed before the other arguments are
\* looked at.
exec_asset_id_parse_first(m) ==
    IF IsSome(m.entropy) /\ IsNone(hash_from_str(Unwrap(m.entropy)))
    THEN Err("invalid entropy hex")
    ELSE IF ~ asset_entropy(m).ok THEN asset_entropy(m)
    ELSE Ok(AssetId_from_entropy(asset_entropy(m).val))

exec_asset_id(m) ==
    IF ~ asset_entropy(m).ok THEN asset_entropy(m)
    ELSE Ok(AssetId_from_entropy(asset_entropy(m).val))

\* The number literals of the sample texts and arguments, and their values.
NumberLiterals == <<"0", "8", "256">>

NumberValues == <<0, 8, 256>>

IsNumberLiteral(v) == \E i \in 1..Len(NumberLiterals) : NumberLiterals[i] = v

\* str::parse of an unsigned integer.
NumberValue(v) == NumberValues[CHOOSE i \in 1..Len(NumberLiterals) : NumberLiterals[i] = v]

\* Display of an unsigned integer.
NumberText(n) == NumberLiterals[CHOOSE i \in 1..Len(NumberValues) : NumberValues[i] = n]

\* The public keys of the samples: FromStr of any other string fails.
PublicKeyStrings == {"0337cceec0beea0232ebe14cba0197a9fbd45fcf2ec946749de920e71434c2b904"}

AssetContractFields == {"entity", "issuer_pubkey", "name", "precision", "ticker", "version"}

IsJsonString(map, k) == HasKey(map, k) /\ map[Map_get(map, k)].val.t = "str"

IsJsonUnsigned(map, k, max) ==
    /\ HasKey(map, k)
    /\ map[Map_get(map, k)].val.t = "num"
    /\ NumberValue(map[Map_get(map, k)].val.v) <= max

\* Deserialize of AssetContractEntity: unknown fields are skipped.
entity_from_value(val) ==
    IF val.t # "obj" THEN None
    ELSE IF ~ HasKey(val.m, "domain") THEN Some([domain |-> None])
    ELSE IF ~ IsJsonString(val.m, "domain") THEN None
    ELSE Some([domain |-> Some(val.m[Map_get(val.m, "domain")].val.v)])

AssetContract_valid(map) ==
    /\ IsJsonString(map, "name")
    /\ IsJsonUnsigned(map, "precision", 255)
    /\ IsJsonString(map, "ticker")
    /\ IsJsonUnsigned(map, "version", 2147483647)
    /\ HasKey(map, "entity") => IsSome(entity_from_value(map[Map_get(map, "entity")].val))
    /\ HasKey(map, "issuer_pubkey") =>
        /\ IsJsonString(map, "issuer_pubkey")
        /\ map[Map_get(map, "issuer_pubkey")].val.v \in PublicKeyStrings

\* serde_json::from_value::<AssetContract>.
AssetContract_from_value(json) ==
    IF json.t # "obj" \/ ~ AssetContract_valid(json.m) THEN None
    ELSE Some([entity |-> IF HasKey(json.m, "entity")
                          THEN entity_from_value(json.m[Map_get(json.m, "entity")].val)
                          ELSE None,
               issuer_pubkey |-> IF HasKey(json.m, "issuer_pubkey")
                                 THEN Some(json.m[Map_get(json.m, "issuer_pubkey")].val.v)
                                 ELSE None,
               name |-> json.m[Map_get(json.m, "name")].val.v,
               precision |-> NumberValue(json.m[Map_get(json.m, "precision")].val.v),
               ticker |-> json.m[Map_get(json.m, "ticker")].val.v,
               version |-> NumberValue(json.m[Map_get(json.m, "version")].val.v),
               additional_fields |->
                   {json.m[i] : i \in {j \in 1..Len(json.m) :
                                          json.m[j].k \notin AssetContractFields}}])

\* serde_json::to_string of an AssetContract built from arguments: the fields
\* in the order of the struct, absent options skipped.
AssetContract_to_string(contract) ==
    <<Punct("{")>>
    \o (IF IsSome(contract.entity)
        THEN <<Str("entity"), Punct(":"), Punct("{"), Str("domain"), Punct(":"),
               Str(Unwrap(Unwrap(contract.entity).domain)), Punct("}"), Punct(",")>>
        ELSE << >>)
    \o (IF IsSome(contract.issuer_pubkey)
        THEN <<Str("issuer_pubkey"), Punct(":"), Str(Unwrap(contract.issuer_pubkey)),
               Punct(",")>>
        ELSE << >>)
    \o <<Str("name"), Punct(":"), Str(contract.name), Punct(","),
         Str("precision"), Punct(":"), Num(NumberText(contract.precision)), Punct(","),
         Str("ticker"), Punct(":"), Str(contract.ticker), Punct(","),
         Str("version"), Punct(":"), Num(NumberText(contract.version)), Punct("}")>>

AssetContractInfo(contract, raw) ==
    [contract |-> contract, contract_hash |-> ContractHash_hash(raw), raw_contract |-> raw]

\* The contract of the arguments of the contract command, --json not given.
contract_from_args(m) ==
    IF IsSome(m.issuer_pubkey) /\ Unwrap(m.issuer_pubkey) \notin PublicKeyStrings
    THEN Err("invalid issuer pubkey")
    ELSE IF IsNone(m.name) THEN Err("no name provided")
    ELSE IF IsNone(m.precision) THEN Err("no precision provided")
    ELSE IF ~ IsNumberLiteral(Unwrap(m.precision)) \/ NumberValue(Unwrap(m.precision)) > 255
    THEN Err("invalid precision value")
    ELSE IF IsNone(m.ticker) THEN Err("no ticker provided")
    ELSE IF IsSome(m.version) /\ ~ IsNumberLiteral(Unwrap(m.version))
    THEN Err("invalid version")
    ELSE Ok([entity |-> IF IsSome(m.entity_domain)
                        THEN Some([domain |-> m.entity_domain]) ELSE None,
             issuer_pubkey |-> m.issuer_pubkey,
             name |-> Unwrap(m.name),
             precision |-> NumberValue(Unwrap(m.precision)),
             ticker |-> Unwrap(m.ticker),
             version |-> IF IsSome(m.version) THEN NumberValue(Unwrap(m.version)) ELSE 0,
             additional_fields |-> {}])

contract_info_from_args(contract) ==
    IF ~ contract.ok THEN contract
    ELSE Ok(AssetContractInfo(contract.val, AssetContract_to_string(contract.val)))

contract_info_from_json(json) ==
    IF IsNone(json) THEN Err("invalid contract JSON")
    ELSE IF IsNone(AssetContract_from_value(Unwrap(json)))
    THEN Err("invalid contract structure")
    ELSE Ok(AssetContractInfo(Unwrap(AssetContract_from_value(Unwrap(json))),
                              json_to_string(Unwrap(json))))

exec_contract(m) ==
    IF IsSome(m.json)
    THEN contract_info_from_json(json_from_str(Unwrap(m.json), m.preserve_order))
    ELSE contract_info_from_args(contract_from_args(m))

(***************************************************************************)
(* Sample contracts and arguments of the assets commands.                  *)
(***************************************************************************)
Member(k, val) == <<Str(k), Punct(":"), val>>

Comma == <<Punct(",")>>

Braces(members) == <<Punct("{")>> \o members \o <<Punct("}")>>

\* {"name":"A","precision":8,"ticker":"T","version":0}
ContractCompact ==
    Braces(Member("name", Str("A")) \o Comma \o Member("precision", Num("8")) \o Comma
           \o Member("ticker", Str("T")) \o Comma \o Member("version", Num("0")))

\* The same contract, white space between its tokens.
ContractSpaced ==
    <<Ws, Punct("{"), Ws, Str("name"), Punct(":"), Ws, Str("A"), Punct(","), Ws,
      Str("precision"), Ws, Punct(":"), Num("8"), Punct(","), Str("ticker"), Punct(":"),
      Str("T"), Ws, Ws, Punct(","), Str("version"), Punct(":"), Num("0"), Ws,
      Punct("}"), Ws>>

\* The same contract, its keys in another order.
ContractUnsorted ==
    Braces(Member("version", Num("0")) \o Comma \o Member("ticker", Str("T")) \o Comma
           \o Member("precision", Num("8")) \o Comma \o Member("name", Str("A")))

\* A contract that names a key twice.
ContractDuplicateKey ==
    Braces(Member("name", Str("A")) \o Comma \o Member("name", Str("B")) \o Comma
           \o Member("precision", Num("8")) \o Comma \o Member("ticker", Str("T"))
           \o Comma \o Member("version", Num("0")))

\* A contract with an entity, an issuer key and a field that is not known.
ContractFull ==
    Braces(<<Str("entity"), Punct(":"), Ws, Punct("{"), Str("domain"), Punct(":"), Ws,
             Str("d.to"), Punct("}")>> \o Comma
           \o Member("issuer_pubkey",
                     Str("0337cceec0beea0232ebe14cba0197a9fbd45fcf2ec946749de920e71434c2b904"))
           \o Comma \o Member("name", Str("A")) \o Comma \o Member("precision", Num("8"))
           \o Comma \o Member("ticker", Str("T")) \o Comma \o Member("version", Num("0"))
           \o Comma \o <<Ws>> \o Member("website", Str("w")))

ContractTexts ==
    {ContractCompact, ContractSpaced, ContractUnsorted, ContractDuplicateKey, ContractFull,
     \* not a contract: fields missing, precision too large, not an object
     Braces(Member("name", Str("A"))),
     Braces(Member("name", Str("A")) \o Comma \o Member("precision", Num("256")) \o Comma
            \o Member("ticker", Str("T")) \o Comma \o Member("version", Num("0"))),
     Braces(Member("entity", Str("d.to")) \o Comma \o Member("name", Str("A")) \o Comma
            \o Member("precision", Num("8")) \o Comma \o Member("ticker", Str("T"))
            \o Comma \o Member("version", Num("0"))),
     <<Ws, Str("A")>>,
     Braces(<< >>),
     \* not JSON: no closing brace, a value missing, text after the value
     <<Punct("{"), Str("name"), Punct(":"), Str("A")>>,
     <<Punct("{"), Str("name"), Punct(":"), Punct("}")>>,
     ContractCompact \o <<Ws, Punct("}")>>}

HexStrings == {hash_to_string(TxidA), hash_to_string(TxidA) \o <<"0">>, <<"z", "z">>}

AssetIdArgs ==
    [entropy : {None} \cup {Some(s) : s \in HexStrings},
     prevout : {None, Some(PrevoutA), Some(hash_to_string(TxidA))},
     contract_hash : {None} \cup {Some(s) : s \in HexStrings},
     contract_json : {None} \cup {Some(t) : t \in ContractTexts},
     preserve_order : BOOLEAN]

NoContractArgs ==
    [json |-> None, entity_domain |-> None, issuer_pubkey |-> None, name |-> None,
     precision |-> None, ticker |-> None, version |-> None, preserve_order |-> TRUE]

ContractArgs ==
    {[NoContractArgs EXCEPT !.json = Some(t), !.preserve_order = p] :
        t \in ContractTexts, p \in BOOLEAN}
    \cup
    {[NoContractArgs EXCEPT !.entity_domain = d, !.issuer_pubkey = k, !.name = n,
                            !.precision = pr, !.ticker = n, !.version = v] :
        d \in {None, Some("d.to")},
        k \in {None, Some("02"),
               Some("0337cceec0beea0232ebe14cba0197a9fbd45fcf2ec946749de920e71434c2b904")},
        n \in {None, Some("A")},
        pr \in {None, Some("8"), Some("256"), Some("x")},
        v \in {None, Some("8"), Some("x")}}

(***************************************************************************)
(* The process: main.rs, and what the create commands write.  What a       *)
(* handler leaves is the chunks it wrote to the standard output and the    *)
(* panic that ended it, if one did.                                        *)
(***************************************************************************)
\* elements::encode::serialize of a transaction or a block.
consensus_serialize(object) == [consensus |-> object]

Written(kind, bytes) == [kind |-> kind, bytes |-> bytes]

Returned(chunks) == [written |-> chunks, panic |-> None]

Panicked(chunks, message) == [written |-> chunks, panic |-> Some(message)]

\* A faulty writer: the part of a descriptor that has no inputs field is
\* written before the panic.
write_encoded_streaming(object, raw_stdout) ==
    IF object = Err("Field \"inputs\" is required.")
    THEN Panicked(<<Written("hex", consensus_serialize("version"))>>, object.err)
    ELSE IF ~ object.ok THEN Panicked(<< >>, object.err)
    ELSE IF raw_stdout THEN Returned(<<Written("raw", consensus_serialize(object.val))>>)
    ELSE Returned(<<Written("hex", consensus_serialize(object.val))>>)

\* The end of both exec_create: the built object is serialized and written,
\* raw or as hex.
write_encoded(object, raw_stdout) ==
    IF ~ object.ok THEN Panicked(<< >>, object.err)
    ELSE IF raw_stdout THEN Returned(<<Written("raw", consensus_serialize(object.val))>>)
    ELSE Returned(<<Written("hex", consensus_serialize(object.val))>>)

tx_exec_create(info, raw_stdout) == write_encoded(create_transaction(info), raw_stdout)

block_exec_create_written(info, raw_stdout) == write_encoded(create_block(info), raw_stdout)

\* The panic hook of main and the exits: a panic prints its message and ends
\* the process with status 1; a handler that returns ends it with status 0.
process_exit(outcome) ==
    IF IsSome(outcome.panic)
    THEN [stdout |-> outcome.written \o <<Written("message", Unwrap(outcome.panic))>>,
          status |-> 1]
    ELSE [stdout |-> outcome.written, status |-> 0]

\* main on "elements <group> create": execute_builtin knows the tx group.
main(group, info, raw_stdout) ==
    IF group = "tx" THEN process_exit(tx_exec_create(info, raw_stdout))
    ELSE process_exit(Panicked(<< >>, "Subcommand not found"))

(***************************************************************************)
(* The state machine.  One run of the program is one command: from the     *)
(* start state a codec function is called on an argument; a decoded        *)
(* descriptor may then be fed back to the encoder, and the result decoded  *)
(* again.                                                                  *)
(*   fn    the function called last                                        *)
(*   arg   its argument                                                    *)
(*   ret   what it returned: a descriptor, or Ok(object) / Err(panic)      *)
(*   orig  the object a decode started from, kept for the way back         *)
(***************************************************************************)
Init ==
    /\ fn = "start"
    /\ arg = None
    /\ ret = None
    /\ orig = None

\* tx decode: raw transaction to descriptor.
exec_decode ==
    /\ fn = "start"
    /\ \E tx \in Transactions, network \in Networks :
        /\ fn' = "exec_decode"
        /\ arg' = tx
        /\ ret' = Transaction_get_info(tx, network)
        /\ orig' = [tx |-> tx, network |-> network]

\* tx create on the descriptor that tx decode printed.
exec_create_decoded ==
    /\ fn = "exec_decode"
    /\ fn' = "exec_create_decoded"
    /\ arg' = ret
    /\ ret' = create_transaction(ret)
    /\ UNCHANGED orig

\* tx decode on the transaction that tx create built from a decoded descriptor.
exec_decode_created ==
    /\ fn = "exec_create_decoded"
    /\ ret.ok
    /\ fn' = "exec_decode_created"
    /\ arg' = arg
    /\ ret' = Transaction_get_info(ret.val, orig.network)
    /\ UNCHANGED orig

\* tx create on a descriptor written by hand.
exec_create ==
    /\ fn = "start"
    /\ \E info \in TransactionInfos, extra \in InformationalFields :
        /\ fn' = "create_transaction"
        /\ arg' = WithInformational(info, extra)
        /\ ret' = create_transaction(WithInformational(info, extra))
        /\ orig' = None

call_create_input ==
    /\ fn = "start"
    /\ \E input \in InputInfos :
        /\ fn' = "create_input"
        /\ arg' = input
        /\ ret' = create_input(input)
        /\ orig' = None

call_outpoint_from_input_info ==
    /\ fn = "start"
    /\ \E input \in OutpointInputs :
        /\ fn' = "outpoint_from_input_info"
        /\ arg' = input
        /\ ret' = outpoint_from_input_info(input)
        /\ orig' = None

call_create_input_witness ==
    /\ fn = "start"
    /\ \E info \in {None} \cup {Some(x) : x \in InputWitnessInfos},
          pd \in {None} \cup {Some(x) : x \in PeginDataInfos},
          prevout \in {OutPointA, OutPointB} :
        /\ fn' = "create_input_witness"
        /\ arg' = [info |-> info, pd |-> pd, prevout |-> prevout]
        /\ ret' = create_input_witness(info, pd, prevout)
        /\ orig' = None

call_create_script_pubkey ==
    /\ fn = "start"
    /\ \E spk \in OutputScriptDescriptors, used_network \in UsedNetworks :
        /\ fn' = "create_script_pubkey"
        /\ arg' = [spk |-> spk, used_network |-> used_network]
        /\ ret' = create_script_pubkey(spk, used_network)
        /\ orig' = None

call_create_script_sig ==
    /\ fn = "start"
    /\ \E ss \in InputScriptDescriptors :
        /\ fn' = "create_script_sig"
        /\ arg' = ss
        /\ ret' = create_script_sig(ss)
        /\ orig' = None

call_create_output ==
    /\ fn = "start"
    /\ \E output \in OutputInfos :
        /\ fn' = "create_output"
        /\ arg' = output
        /\ ret' = create_output(output)
        /\ orig' = None

call_create_script_pubkey_from_pegout_data ==
    /\ fn = "start"
    /\ \E pd \in PegoutDataInfos :
        /\ fn' = "create_script_pubkey_from_pegout_data"
        /\ arg' = pd
        /\ ret' = create_script_pubkey_from_pegout_data(pd)
        /\ orig' = None

\* Decoding a confidential field of an object.
call_Value_get_info ==
    /\ fn = "start"
    /\ \E v \in Values :
        /\ fn' = "Value_get_info"
        /\ arg' = v
        /\ ret' = Value_get_info(v)
        /\ orig' = None

call_Asset_get_info ==
    /\ fn = "start"
    /\ \E a \in Assets :
        /\ fn' = "Asset_get_info"
        /\ arg' = a
        /\ ret' = Asset_get_info(a)
        /\ orig' = None

call_Nonce_get_info ==
    /\ fn = "start"
    /\ \E n \in Nonces :
        /\ fn' = "Nonce_get_info"
        /\ arg' = n
        /\ ret' = Nonce_get_info(n)
        /\ orig' = None

\* Encoding the descriptor of a confidential field that was just decoded.
call_create_confidential ==
    /\ fn \in {"Value_get_info", "Asset_get_info", "Nonce_get_info"}
    /\ fn' = CASE fn = "Value_get_info" -> "create_confidential_value"
               [] fn = "Asset_get_info" -> "create_confidential_asset"
               [] fn = "Nonce_get_info" -> "create_confidential_nonce"
    /\ arg' = ret
    /\ ret' = CASE fn = "Value_get_info" -> create_confidential_value(ret)
                [] fn = "Asset_get_info" -> create_confidential_asset(ret)
                [] fn = "Nonce_get_info" -> create_confidential_nonce(ret)
    /\ orig' = arg

\* One call of create_params on a hand-written params descriptor.
call_create_params ==
    /\ fn = "start"
    /\ \E info \in ParamsInfos :
        /\ fn' = "create_params"
        /\ arg' = info
        /\ ret' = create_params(info)
        /\ orig' = None

\* One call of create_block_header on a hand-written header descriptor.
call_create_block_header ==
    /\ fn = "start"
    /\ \E info \in BlockHeaderInfos :
        /\ fn' = "create_block_header"
        /\ arg' = info
        /\ ret' = create_block_header(info)
        /\ orig' = None

\* The header part of block decode.
call_BlockHeader_get_info ==
    /\ fn = "start"
    /\ \E header \in BlockHeaders :
        /\ fn' = "BlockHeader_get_info"
        /\ arg' = header
        /\ ret' = BlockHeader_get_info(header)
        /\ orig' = None

\* create_block_header on the descriptor that decoding a header gave.
call_create_block_header_decoded ==
    /\ fn = "BlockHeader_get_info"
    /\ fn' = "create_block_header_decoded"
    /\ arg' = ret
    /\ ret' = create_block_header(ret)
    /\ orig' = arg

\* block create: block descriptor to block.
block_exec_create ==
    /\ fn = "start"
    /\ \E info \in BlockInfos :
        /\ fn' = "block_exec_create"
        /\ arg' = info
        /\ ret' = create_block(info)
        /\ orig' = None

\* One call of create_confidential_value on a hand-written descriptor.
call_create_confidential_value ==
    /\ fn = "start"
    /\ \E info \in HandValueInfos :
        /\ fn' = "call_create_confidential_value"
        /\ arg' = info
        /\ ret' = create_confidential_value(info)
        /\ orig' = None

\* One call of create_confidential_asset on a hand-written descriptor.
call_create_confidential_asset ==
    /\ fn = "start"
    /\ \E info \in HandAssetInfos :
        /\ fn' = "call_create_confidential_asset"
        /\ arg' = info
        /\ ret' = create_confidential_asset(info)
        /\ orig' = None

\* One call of create_confidential_nonce on a hand-written descriptor.
call_create_confidential_nonce ==
    /\ fn = "start"
    /\ \E info \in HandNonceInfos :
        /\ fn' = "call_create_confidential_nonce"
        /\ arg' = info
        /\ ret' = create_confidential_nonce(info)
        /\ orig' = None

\* block decode: raw block to descriptor.
block_exec_decode ==
    /\ fn = "start"
    /\ \E block \in Blocks, txids \in BOOLEAN, network \in Networks :
        /\ fn' = "block_exec_decode"
        /\ arg' = [block |-> block, txids |-> txids]
        /\ ret' = decode_block(block, txids, network)
        /\ orig' = None

\* block create on the descriptor that block decode printed.
block_exec_create_decoded ==
    /\ fn = "block_exec_decode"
    /\ fn' = "block_exec_create_decoded"
    /\ arg' = ret
    /\ ret' = create_block(ret)
    /\ orig' = arg

\* assets asset-id on hand-written arguments.
assets_exec_asset_id ==
    /\ fn = "start"
    /\ \E m \in AssetIdArgs :
        /\ fn' = "exec_asset_id"
        /\ arg' = m
        /\ ret' = exec_asset_id(m)
        /\ orig' = None

\* assets contract on hand-written arguments.
assets_exec_contract ==
    /\ fn = "start"
    /\ \E m \in ContractArgs :
        /\ fn' = "exec_contract"
        /\ arg' = m
        /\ ret' = exec_contract(m)
        /\ orig' = None

\* The process run on tx create.
main_tx_create ==
    /\ fn = "start"
    /\ \E info \in TransactionInfos, raw_stdout \in BOOLEAN :
        /\ fn' = "main"
        /\ arg' = [group |-> "tx", info |-> info, raw_stdout |-> raw_stdout]
        /\ ret' = main("tx", info, raw_stdout)
        /\ orig' = None

\* The process run on block create.
main_block_create ==
    /\ fn = "start"
    /\ \E info \in BlockInfos, raw_stdout \in BOOLEAN :
        /\ fn' = "main"
        /\ arg' = [group |-> "block", info |-> info, raw_stdout |-> raw_stdout]
        /\ ret' = main("block", info, raw_stdout)
        /\ orig' = None

\* exec_create of the block group, run under the panic hook of main.
block_exec_create_hooked ==
    /\ fn = "start"
    /\ \E info \in BlockInfos, raw_stdout \in BOOLEAN :
        /\ fn' = "block_exec_create_hooked"
        /\ arg' = [group |-> "block", info |-> info, raw_stdout |-> raw_stdout]
        /\ ret' = process_exit(block_exec_create_written(info, raw_stdout))
        /\ orig' = None

Next ==
    \/ exec_decode
    \/ exec_create_decoded
    \/ exec_decode_created
    \/ exec_create
    \/ call_create_input
    \/ call_outpoint_from_input_info
    \/ call_create_input_witness
    \/ call_create_script_pubkey
    \/ call_create_script_sig
    \/ call_create_output
    \/ call_create_script_pubkey_from_pegout_data
    \/ call_Value_get_info
    \/ call_Asset_get_info
    \/ call_Nonce_get_info
    \/ call_create_confidential
    \/ call_create_params
    \/ call_create_block_header
    \/ call_BlockHeader_get_info
    \/ call_create_block_header_decoded
    \/ block_exec_create
    \/ block_exec_decode
    \/ block_exec_create_decoded
    \/ call_create_confidential_value
    \/ call_create_confidential_asset
    \/ call_create_confidential_nonce
    \/ assets_exec_asset_id
    \/ assets_exec_contract
    \/ main_tx_create
    \/ main_block_create
    \/ block_exec_create_hooked

Spec == Init /\ [][Next]_vars


(***************************************************************************)
(* The claims of the specification, C1 to C10.                             *)
(***************************************************************************)

\* C1 (transaction round trip): for every binary transaction x,
\* create_transaction on the descriptor that Transaction::get_info(x) produced
\* succeeds and yields exactly x: same version, lock time, inputs and outputs.
\* Refuted: create_input narrows the sequence to 16 bits and panics above 65535.
C1_RoundTrip == fn = "exec_create_decoded" => ret.ok /\ ret.val = orig.tx

\* The network of the address an output derives its script from, None when
\* the script comes from elsewhere or the address parameters name no network.
AddressNetwork(output) ==
    IF IsNone(output.script_pub_key) THEN None
    ELSE LET spk == Unwrap(output.script_pub_key)
         IN IF IsNone(spk.hex) /\ IsNone(spk.asm) /\ IsSome(spk.address)
            THEN from_params(Unwrap(spk.address).params)
            ELSE None

AddressNetworks(outputs) ==
    {Unwrap(AddressNetwork(outputs[i])) :
        i \in {j \in 1..Len(outputs) : IsSome(AddressNetwork(outputs[j]))}}

\* The descriptor has its four required fields and every input and every
\* output encodes when taken alone.
PartsEncode(info) ==
    /\ IsSome(info.version) /\ IsSome(info.locktime)
    /\ IsSome(info.inputs) /\ IsSome(info.outputs)
    /\ \A i \in 1..Len(Unwrap(info.inputs)) : create_input(Unwrap(info.inputs)[i]).ok
    /\ \A i \in 1..Len(Unwrap(info.outputs)) : create_output(Unwrap(info.outputs)[i]).ok

\* C2 (network consistency across outputs): when two outputs of one
\* transaction descriptor derive their scripts from addresses of two different
\* networks, create_transaction fails; when all address-derived outputs use
\* the same network (and the parts encode), it succeeds.
\* Refuted: the accumulator is a local of create_output, one per output.
C2_NetworkConsistency ==
    fn = "create_transaction" /\ IsSome(arg.outputs) =>
        LET nets == AddressNetworks(Unwrap(arg.outputs))
        IN /\ Cardinality(nets) > 1 => ~ ret.ok
           /\ Cardinality(nets) <= 1 /\ PartsEncode(arg) => ret.ok

\* The outpoint the combined string of the input denotes, if it is given.
CombinedOutpoint ==
    IF IsSome(arg.prevout) THEN outpoint_from_str(Unwrap(arg.prevout)) ELSE None

\* The outpoint the split fields of the input denote, if both are given.
SplitOutpoint ==
    IF IsSome(arg.txid) /\ IsSome(arg.vout)
    THEN Some(OutPoint(Unwrap(arg.txid), Unwrap(arg.vout)))
    ELSE None

\* outpoint_from_input_info was called on an input whose combined string, if
\* given, is well formed.
WellFormedOutpointCall ==
    /\ fn = "outpoint_from_input_info"
    /\ IsSome(arg.prevout) => IsSome(CombinedOutpoint)

\* C3 as stated (outpoint conflict detection): outpoint_from_input_info fails
\* when both forms are supplied and denote different outpoints, fails when
\* neither form is supplied, and otherwise returns the outpoint of whichever
\* form is supplied.
\* Refuted: a txid without vout fails even next to a well-formed prevout.
C3_OutpointConflict_AsStated ==
    WellFormedOutpointCall =>
        IF IsSome(CombinedOutpoint) /\ IsSome(SplitOutpoint)
           /\ CombinedOutpoint # SplitOutpoint
        THEN ~ ret.ok
        ELSE IF IsNone(CombinedOutpoint) /\ IsNone(SplitOutpoint)
        THEN ~ ret.ok
        ELSE ret = Ok(IF IsSome(CombinedOutpoint) THEN Unwrap(CombinedOutpoint)
                      ELSE Unwrap(SplitOutpoint))

\* C3 (outpoint conflict detection, amended): outpoint_from_input_info fails
\* when both forms are supplied and denote different outpoints, fails when
\* neither form is supplied, fails when txid is supplied without vout (also
\* next to a prevout string), and otherwise returns the outpoint of whichever
\* form is supplied.
C3_OutpointConflict ==
    WellFormedOutpointCall =>
        IF IsSome(CombinedOutpoint) /\ IsSome(SplitOutpoint)
           /\ CombinedOutpoint # SplitOutpoint
        THEN ~ ret.ok
        ELSE IF IsNone(CombinedOutpoint) /\ IsNone(SplitOutpoint)
        THEN ~ ret.ok
        ELSE IF IsSome(arg.txid) /\ IsNone(arg.vout)
        THEN ~ ret.ok
        ELSE ret = Ok(IF IsSome(CombinedOutpoint) THEN Unwrap(CombinedOutpoint)
                      ELSE Unwrap(SplitOutpoint))

\* Both forms were supplied with the same txid and different indexes, and
\* the call failed with the conflict panic.
C3_Witness ==
    /\ WellFormedOutpointCall
    /\ IsSome(CombinedOutpoint) /\ IsSome(SplitOutpoint)
    /\ Unwrap(CombinedOutpoint).txid = Unwrap(SplitOutpoint).txid
    /\ Unwrap(CombinedOutpoint).vout # Unwrap(SplitOutpoint).vout
    /\ ret = Err("Conflicting prevout information in input.")

RequiredFieldsPresent(info) ==
    /\ IsSome(info.version) /\ IsSome(info.locktime)
    /\ IsSome(info.inputs) /\ IsSome(info.outputs)

\* C4 as stated (required fields): create_transaction fails unless the
\* descriptor carries version, locktime, a non-empty inputs sequence and a
\* non-empty outputs sequence.
\* Refuted: a present but empty list is accepted.
C4_RequiredFields_AsStated ==
    fn = "create_transaction" /\ ret.ok =>
        /\ RequiredFieldsPresent(arg)
        /\ Unwrap(arg.inputs) # << >>
        /\ Unwrap(arg.outputs) # << >>

\* C4 (required fields, amended): create_transaction fails unless the
\* descriptor carries version, locktime, inputs and outputs; a list that is
\* present but empty is accepted, and the transaction built has one input per
\* input descriptor and one output per output descriptor, none for an empty list.
C4_RequiredFields ==
    fn = "create_transaction" =>
        /\ ret.ok =>
            /\ RequiredFieldsPresent(arg)
            /\ Len(ret.val.input) = Len(Unwrap(arg.inputs))
            /\ Len(ret.val.output) = Len(Unwrap(arg.outputs))
        /\ PartsEncode(arg) => ret.ok

\* A descriptor with an empty inputs list and an empty outputs list was
\* encoded to a transaction without inputs and outputs.
C4_Witness ==
    /\ fn = "create_transaction"
    /\ RequiredFieldsPresent(arg)
    /\ Unwrap(arg.inputs) = << >> /\ Unwrap(arg.outputs) = << >>
    /\ ret.ok /\ ret.val.input = << >> /\ ret.val.output = << >>

\* C5 (descriptor idempotence): for every descriptor d that
\* Transaction::get_info produced, create_transaction(d) succeeds and get_info
\* of the result equals d on every field.
\* Refuted: create_transaction(d) panics when d holds a sequence above 65535.
C5_Idempotence ==
    /\ fn = "exec_create_decoded" => ret.ok
    /\ fn = "exec_decode_created" => ret = arg


\* C6 (tri-state exhaustiveness): for a null, explicit or confidential value,
\* asset or nonce, get_info followed by create_confidential_value / _asset /
\* _nonce gives back the original state with the original value, asset id,
\* nonce or 33-byte commitment (prefix byte, then 32-byte body).
C6_TriState ==
    fn \in {"create_confidential_value", "create_confidential_asset",
            "create_confidential_nonce"}
        => ret = Ok(orig)

\* A confidential asset was decoded to its 33-byte commitment and encoded back.
C6_Witness ==
    /\ fn = "create_confidential_asset"
    /\ orig.tag = "Confidential"
    /\ arg.type_ = "confidential"
    /\ Len(Unwrap(arg.commitment)) = 33
    /\ ret.ok /\ ret.val.tag = "Confidential"

\* The same output descriptor without its pegout_data.
WithoutPegoutData(output) == [output EXCEPT !.pegout_data = None]

\* C7 (output script source precedence): create_output takes the script from
\* script_pub_key when it is given, and pegout_data is then without effect,
\* also when its value or asset disagree with the output's; otherwise the
\* script is lowered from pegout_data when that is given; otherwise it is empty.
C7_ScriptPrecedence ==
    fn = "create_output" =>
        IF IsSome(arg.script_pub_key)
        THEN /\ ret = create_output(WithoutPegoutData(arg))
             /\ ret.ok =>
                    LET spk == create_script_pubkey(Unwrap(arg.script_pub_key), None)
                    IN spk.ok /\ ret.val.script_pubkey = spk.val.script
        ELSE IF IsSome(arg.pegout_data)
        THEN ret.ok =>
                LET lowered == create_script_pubkey_from_pegout_data(Unwrap(arg.pegout_data))
                IN lowered.ok /\ ret.val.script_pubkey = lowered.val
        ELSE ret.ok => ret.val.script_pubkey = << >>

\* An output with a script descriptor and with pegout_data whose value is not
\* the output's value was encoded, with the script of the script descriptor.
C7_Witness ==
    /\ fn = "create_output"
    /\ IsSome(arg.script_pub_key) /\ IsSome(arg.pegout_data)
    /\ IsSome(arg.value)
    /\ Unwrap(arg.value).value # Some(Unwrap(arg.pegout_data).value)
    /\ IsSome(Unwrap(arg.script_pub_key).hex)
    /\ ret.ok
    /\ ret.val.script_pubkey = Unwrap(Unwrap(arg.script_pub_key).hex)

\* The value of the output is explicit and equal to the value of pegout_data,
\* and the asset of the output is the asset of pegout_data.
PegoutDataMatches(output) ==
    LET pd == Unwrap(output.pegout_data)
        value == Unwrap(output.value)
        asset == create_confidential_asset(Unwrap(output.asset))
        pd_asset == create_confidential_asset(pd.asset)
    IN /\ value.type_ = "explicit" /\ value.value = Some(pd.value)
       /\ asset.ok /\ pd_asset.ok /\ asset.val = pd_asset.val

\* What an output holds beside value, asset and the match with pegout_data:
\* its nonce, its witness and the counterpart script of pegout_data encode.
PegoutRestEncodes(output) ==
    /\ IsSome(output.nonce) => create_confidential_nonce(Unwrap(output.nonce)).ok
    /\ IsSome(output.witness) => create_output_witness(Unwrap(output.witness)).ok
    /\ create_bitcoin_script_pubkey(Unwrap(output.pegout_data).script_pub_key).ok

C9_PegoutLowering ==
    fn = "create_script_pubkey_from_pegout_data" =>
        LET S == create_bitcoin_script_pubkey(arg.script_pub_key)
        IN /\ ret.ok <=> S.ok
           /\ ret.ok =>
                Instructions(ret.val) =
                    Some(<<Op(OP_RETURN), PushBytes(arg.genesis_hash), PushBytes(S.val)>>
                         \o [i \in 1..Len(arg.extra_data) |-> PushBytes(arg.extra_data[i])])

\* Pegout data with two different extra elements was lowered to a script.
C9_Witness ==
    /\ fn = "create_script_pubkey_from_pegout_data"
    /\ Len(arg.extra_data) = 2
    /\ arg.extra_data[1] # arg.extra_data[2]
    /\ ret.ok
    /\ Head(ret.val) = OP_RETURN

\* The witness descriptor carries its own peg-in witness.
ExplicitPeginWitness ==
    IsSome(arg.info) /\ IsSome(Unwrap(arg.info).pegin_witness)

\* C10 (peg-in witness precedence): create_input_witness uses the explicit
\* pegin_witness of the witness descriptor verbatim when it is given, else the
\* witness lowered from pegin_data when that is given, else an empty peg-in
\* witness; an explicit pegin_witness shadows pegin_data, so the call never
\* aborts because of pegin_data then, whatever its outpoint or asset.
C10_PeginWitnessPrecedence ==
    fn = "create_input_witness" =>
        IF ExplicitPeginWitness
        THEN /\ ret = create_input_witness(arg.info, None, arg.prevout)
             /\ ret.ok => ret.val.pegin_witness = Unwrap(Unwrap(arg.info).pegin_witness)
             /\ ~ ret.ok => ret.err = "invalid rangeproof"
        ELSE IF IsSome(arg.pd)
        THEN LET lowered == create_pegin_witness(Unwrap(arg.pd),
                                                 convert_outpoint_to_btc(arg.prevout))
             IN /\ ~ lowered.ok => ~ ret.ok
                /\ ret.ok => ret.val.pegin_witness = lowered.val
        ELSE ret.ok => ret.val.pegin_witness = << >>

\* An explicit peg-in witness was used although pegin_data was given and
\* could not have been lowered for this input.
C10_Witness ==
    /\ fn = "create_input_witness"
    /\ ExplicitPeginWitness
    /\ IsSome(arg.pd)
    /\ ~ create_pegin_witness(Unwrap(arg.pd), convert_outpoint_to_btc(arg.prevout)).ok
    /\ ret.ok
    /\ ret.val.pegin_witness = Unwrap(Unwrap(arg.info).pegin_witness)

\* The declared outpoint of pegin_data is well formed and is not the given
\* previous output, or the asset of pegin_data is not of explicit type.
PeginDataDisagrees(pd, prevout) ==
    LET declared == bitcoin_outpoint_from_str(pd.outpoint)
    IN \/ IsSome(declared) /\ Unwrap(declared) # convert_outpoint_to_btc(prevout)
       \/ pd.asset.type_ # "explicit"

\* The input descriptor of a create_input call, or the witness descriptor of
\* a create_input_witness call, carries its own peg-in witness.
C11_ExplicitPeginWitness ==
    IF fn = "create_input"
    THEN IsSome(arg.witness) /\ IsSome(Unwrap(arg.witness).pegin_witness)
    ELSE IsSome(arg.info) /\ IsSome(Unwrap(arg.info).pegin_witness)

\* An input is being encoded with pegin_data that disagrees with the
\* previous output the input resolves to.
C11_Disagreement ==
    \/ /\ fn = "create_input"
       /\ IsSome(arg.pegin_data)
       /\ outpoint_from_input_info(arg).ok
       /\ PeginDataDisagrees(Unwrap(arg.pegin_data), outpoint_from_input_info(arg).val)
    \/ /\ fn = "create_input_witness"
       /\ IsSome(arg.pd)
       /\ PeginDataDisagrees(Unwrap(arg.pd), arg.prevout)

\* C11 as stated (peg-in cross-validation): whenever an input descriptor
\* carries pegin_data, encoding fails if the declared outpoint of pegin_data
\* differs from the resolved previous output of the input or if the asset of
\* pegin_data is not of explicit type.
\* Refuted: an explicit pegin_witness shadows pegin_data, which is then not read.
C11_PeginCrossValidation_AsStated == C11_Disagreement => ~ ret.ok

\* C11 (peg-in cross-validation, amended): whenever an input descriptor
\* carries pegin_data and its witness descriptor carries no explicit
\* pegin_witness, encoding fails if the declared outpoint of pegin_data differs
\* from the resolved previous output of the input or if the asset of
\* pegin_data is not of explicit type.
C11_PeginCrossValidation ==
    C11_Disagreement /\ ~ C11_ExplicitPeginWitness => ~ ret.ok

\* An input whose pegin_data names another outpoint, without an explicit
\* peg-in witness, was rejected for that reason.
C11_Witness ==
    /\ fn = "create_input"
    /\ C11_Disagreement
    /\ ~ C11_ExplicitPeginWitness
    /\ Unwrap(arg.pegin_data).asset.type_ = "explicit"
    /\ ret = Err("Outpoint in \"pegin_data\" does not correspond to input value.")

\* pegin_data with the two fields that are derived from the others changed.
WithOtherDerivedFields(pd) ==
    [pd EXCEPT !.referenced_block = block_hash(Rep(80, 0)),
               !.mainchain_tx = mainchain_tx_info(Rep(10, 0))]

\* C12 (peg-in lowering shape): when pegin_data is given without an explicit
\* pegin_witness, the encoded peg-in witness has exactly six elements, in this
\* order: value, asset, genesis hash, claim script, counterpart-chain
\* transaction, Merkle proof; referenced_block and mainchain_tx have no
\* influence on it.
\* Refuted: the last three elements carry a length prefix before their bytes.
C12_PeginLoweringShape ==
    fn = "create_input_witness" /\ IsSome(arg.pd) /\ ~ ExplicitPeginWitness /\ ret.ok =>
        LET pd == Unwrap(arg.pd)
        IN /\ ret.val.pegin_witness =
                <<serialize_u64(pd.value),
                  Unwrap(pd.asset.asset),
                  pd.genesis_hash,
                  pd.claim_script,
                  pd.mainchain_tx_hex,
                  pd.merkle_proof>>
           /\ ret = create_input_witness(arg.info, Some(WithOtherDerivedFields(pd)),
                                         arg.prevout)

\* The issuance flag of an input descriptor: has_issuance when it is given,
\* else whether asset_issuance is supplied.
IssuanceFlag(input) ==
    IF IsSome(input.has_issuance) THEN Unwrap(input.has_issuance)
    ELSE IsSome(input.asset_issuance)

\* The same input descriptor without issuance data and with the flag off.
WithoutIssuance(input) ==
    [input EXCEPT !.asset_issuance = None, !.has_issuance = Some(FALSE)]

\* C13 (issuance flag resolution): create_input takes the issuance flag from
\* has_issuance when it is given, else from whether asset_issuance is supplied;
\* with the flag on, supplied issuance data is encoded; with the flag off,
\* supplied issuance data is discarded: the input carries the null default
\* issuance and the data cannot make the encoding fail.
C13_IssuanceFlag ==
    fn = "create_input" =>
        IF IssuanceFlag(arg)
        THEN IsSome(arg.asset_issuance) =>
                LET issuance == create_asset_issuance(Unwrap(arg.asset_issuance))
                IN /\ ~ issuance.ok => ~ ret.ok
                   /\ ret.ok => ret.val.asset_issuance = issuance.val
        ELSE /\ ret = create_input(WithoutIssuance(arg))
             /\ ret.ok => ret.val.asset_issuance = DefaultAssetIssuance

\* An input with has_issuance false and issuance data that does not encode
\* was encoded, with the null default issuance.
C13_Witness ==
    /\ fn = "create_input"
    /\ arg.has_issuance = Some(FALSE)
    /\ IsSome(arg.asset_issuance)
    /\ ~ create_asset_issuance(Unwrap(arg.asset_issuance)).ok
    /\ ret.ok
    /\ ret.val.asset_issuance = DefaultAssetIssuance

\* The same transaction descriptor with every derived field absent.
WithoutInformational(info) ==
    [info EXCEPT !.txid = None, !.wtxid = None, !.hash = None,
                 !.size = None, !.weight = None, !.vsize = None]

\* C14 (informational fields do not influence encoding): two transaction
\* descriptors that differ only in txid, wtxid, hash, size, weight or vsize
\* have the same outcome of create_transaction, the same transaction or a
\* failure in both: the outcome is that of the descriptor without these fields.
C14_InformationalIgnored ==
    fn \in {"create_transaction", "exec_create_decoded"} =>
        ret = create_transaction(WithoutInformational(arg))

\* A descriptor with derived fields that belong to no transaction was
\* encoded to a transaction with an input and an output.
C14_Witness ==
    /\ fn = "create_transaction"
    /\ arg.txid = Some(TxidA) /\ arg.size = Some(0) /\ arg.vsize = Some(100000)
    /\ ret.ok
    /\ ret.val.input # << >> /\ ret.val.output # << >>

\* The accumulator holds a network and the address is of another network.
NetworkConflict(address, used_network) ==
    /\ IsSome(used_network)
    /\ IsSome(from_params(address.params))
    /\ from_params(address.params) # used_network

\* C15 (script descriptor encode): with hex given the script is exactly those
\* bytes whatever asm and address hold, the call does not fail and the network
\* accumulator is left as it was, also when the address is of another network;
\* with only an address given the script is the script of that address (the
\* call fails only when the accumulator holds another network); an asm string
\* without hex fails as not yet supported; a descriptor with none of hex, asm
\* and address fails.  create_script_sig does the same with hex and asm.
C15_ScriptDescriptorEncode ==
    /\ fn = "create_script_pubkey" =>
        LET spk == arg.spk
        IN IF IsSome(spk.hex)
           THEN ret = Ok([script |-> Unwrap(spk.hex), used_network |-> arg.used_network])
           ELSE IF IsSome(spk.asm)
           THEN ret = Err("Decoding script assembly is not yet supported.")
           ELSE IF IsSome(spk.address)
           THEN /\ ret.ok <=> ~ NetworkConflict(Unwrap(spk.address), arg.used_network)
                /\ ret.ok => ret.val.script = script_pubkey(Unwrap(spk.address))
           ELSE ~ ret.ok
    /\ fn = "create_script_sig" =>
        IF IsSome(arg.hex) THEN ret = Ok(Unwrap(arg.hex))
        ELSE IF IsSome(arg.asm)
        THEN ret = Err("Decoding script assembly is not yet supported.")
        ELSE ~ ret.ok

\* A descriptor with hex, asm and a Liquid address was encoded to the bytes
\* of hex while the accumulator held ElementsRegtest, and still holds it.
C15_Witness ==
    /\ fn = "create_script_pubkey"
    /\ arg.spk.hex = Some(ScriptTrue)
    /\ IsSome(arg.spk.asm)
    /\ arg.spk.address = Some(AddressLiquid)
    /\ arg.used_network = Some("ElementsRegtest")
    /\ ret = Ok([script |-> ScriptTrue, used_network |-> Some("ElementsRegtest")])

\* C16 (fee detection): TxOut::get_info reports is_fee = true if and only if
\* the asset is explicit, the value is explicit and the script has zero
\* length; an output that fails any one of the three (asset null or
\* confidential, value null or confidential, script not empty) has
\* is_fee = false.  Stated on the outputs of a decoded transaction, on the
\* object and on what the descriptor shows of it.
C16_FeeDetection ==
    fn = "exec_decode" =>
        \A i \in 1..Len(orig.tx.output) :
            LET o == orig.tx.output[i]
                d == Unwrap(ret.outputs)[i]
            IN /\ d.is_fee = Some(/\ o.asset.tag = "Explicit"
                                  /\ o.value.tag = "Explicit"
                                  /\ o.script_pubkey = << >>)
               /\ d.is_fee = Some(/\ Unwrap(d.asset).type_ = "explicit"
                                  /\ Unwrap(d.value).type_ = "explicit"
                                  /\ Unwrap(d.script_pub_key).hex = Some(<< >>))

\* A transaction whose one output has an explicit asset, an explicit value
\* and an empty script was decoded, and the output is shown as a fee.
C16_Witness ==
    /\ fn = "exec_decode"
    /\ Len(orig.tx.output) = 1
    /\ orig.tx.output[1].asset.tag = "Explicit"
    /\ orig.tx.output[1].value.tag = "Explicit"
    /\ orig.tx.output[1].script_pubkey = << >>
    /\ Unwrap(ret.outputs)[1].is_fee = Some(TRUE)

(***************************************************************************)
(* C17.                                                                    *)
(***************************************************************************)
\* The fields create_params needs for a params_type.
ParamsFieldsNeeded(params_type) ==
    CASE params_type = "null" -> {}
      [] params_type = "compact" ->
            {"signblockscript", "signblock_witness_limit", "elided_root"}
      [] params_type = "full" ->
            {"signblockscript", "signblock_witness_limit", "fedpeg_program",
             "fedpeg_script", "extension_space"}

\* A params descriptor without the fields its shape does not select.
WithoutOtherParamsFields(info) ==
    [f \in DOMAIN info |->
        IF f = "params_type" \/ f \in ParamsFieldsNeeded(info.params_type)
        THEN info[f] ELSE None]

\* A header descriptor without block_hash and the fields of the extension
\* shape its dynafed flag does not select.
WithoutOtherExtFields(info) ==
    IF info.dynafed
    THEN [info EXCEPT !.block_hash = None, !.legacy_challenge = None,
                      !.legacy_solution = None]
    ELSE [info EXCEPT !.block_hash = None, !.dynafed_current = None,
                      !.dynafed_proposed = None, !.dynafed_witness = None]

\* Whether an optional params descriptor is present and encodes.
ParamsEncode(info) == IsSome(info) /\ create_params(Unwrap(info)).ok

\* C17: create_params succeeds exactly when every field of the shape that
\* params_type names is present, and then builds that shape from those fields;
\* create_block_header succeeds exactly when the fields of the extension that
\* the dynafed flag selects are present (and, for Dynafed, both params
\* encode), and then builds that extension; in both, the result, success or
\* failure, is the same with the fields of the other shape removed.
C17_HeaderParamsDispatch ==
    /\ fn = "create_params" =>
        /\ ret.ok <=> \A f \in ParamsFieldsNeeded(arg.params_type) : IsSome(arg[f])
        /\ ret.ok =>
            /\ ParamsType(ret.val) = arg.params_type
            /\ Params_get_info(ret.val) = WithoutOtherParamsFields(arg)
        /\ ret = create_params(WithoutOtherParamsFields(arg))
    /\ fn = "create_block_header" =>
        /\ arg.dynafed =>
            /\ ret.ok <=> /\ ParamsEncode(arg.dynafed_current)
                          /\ ParamsEncode(arg.dynafed_proposed)
                          /\ IsSome(arg.dynafed_witness)
            /\ (IsNone(arg.dynafed_current) \/ IsNone(arg.dynafed_proposed)
                    \/ IsNone(arg.dynafed_witness)) => ~ ret.ok
            /\ ret.ok =>
                /\ ret.val.ext.tag = "Dynafed"
                /\ ret.val.ext.current = create_params(Unwrap(arg.dynafed_current)).val
                /\ ret.val.ext.proposed = create_params(Unwrap(arg.dynafed_proposed)).val
                /\ ret.val.ext.signblock_witness = Unwrap(arg.dynafed_witness)
        /\ ~ arg.dynafed =>
            /\ ret.ok <=> IsSome(arg.legacy_challenge) /\ IsSome(arg.legacy_solution)
            /\ ret.ok =>
                ret.val.ext = Proof(Unwrap(arg.legacy_challenge), Unwrap(arg.legacy_solution))
        /\ ret = create_block_header(WithoutOtherExtFields(arg))

\* A Dynafed header is built from a descriptor that also gives the legacy
\* fields, its current params of the compact shape.
C17_Witness ==
    /\ fn = "create_block_header"
    /\ arg.dynafed
    /\ IsSome(arg.legacy_challenge)
    /\ IsSome(arg.legacy_solution)
    /\ ret.ok
    /\ ret.val.ext.tag = "Dynafed"
    /\ ret.val.ext.current.tag = "Compact"

(***************************************************************************)
(* C18.                                                                    *)
(***************************************************************************)
\* C18: create_block_header on the descriptor that get_info gave for a header
\* succeeds and gives that header back, field for field.
C18_HeaderRoundTrip ==
    fn = "create_block_header_decoded" =>
        /\ ret.ok
        /\ ret.val.version = orig.version
        /\ ret.val.prev_blockhash = orig.prev_blockhash
        /\ ret.val.merkle_root = orig.merkle_root
        /\ ret.val.time = orig.time
        /\ ret.val.height = orig.height
        /\ ret.val.ext = orig.ext
        /\ ret.val = orig

\* A Dynafed header whose current and proposed params differ in shape, one of
\* them full and the other compact, has made the round trip.
C18_Witness ==
    /\ fn = "create_block_header_decoded"
    /\ orig.ext.tag = "Dynafed"
    /\ orig.ext.current.tag = "Full"
    /\ orig.ext.proposed.tag = "Compact"
    /\ orig.ext.signblock_witness # << >>
    /\ ret.ok
    /\ ret.val.ext.tag = "Dynafed"

(***************************************************************************)
(* C19.                                                                    *)
(***************************************************************************)
\* C19: block create fails when both transactions and raw_transactions are
\* given and when neither is; when exactly one is given and the command
\* succeeds, the block holds one transaction per element of that list, in the
\* order of the list: the encoding of the descriptor, or the transaction of
\* the blob.  It succeeds exactly when the header encodes, one list is given
\* and each of its elements encodes or deserializes.
C19_BlockAssembly ==
    fn = "block_exec_create" =>
        LET infos == arg.transactions
            raws == arg.raw_transactions
        IN /\ (IsSome(infos) /\ IsSome(raws)) => ~ ret.ok
           /\ (IsNone(infos) /\ IsNone(raws)) => ~ ret.ok
           /\ (IsSome(infos) /\ IsNone(raws)) =>
                /\ ret.ok <=>
                    /\ create_block_header(arg.header).ok
                    /\ \A i \in 1..Len(Unwrap(infos)) :
                            create_transaction(Unwrap(infos)[i]).ok
                /\ ret.ok =>
                    /\ Len(ret.val.txdata) = Len(Unwrap(infos))
                    /\ \A i \in 1..Len(Unwrap(infos)) :
                            ret.val.txdata[i] = create_transaction(Unwrap(infos)[i]).val
           /\ (IsNone(infos) /\ IsSome(raws)) =>
                /\ ret.ok <=>
                    /\ create_block_header(arg.header).ok
                    /\ \A i \in 1..Len(Unwrap(raws)) :
                            deserialize_transaction(Unwrap(raws)[i]).ok
                /\ ret.ok =>
                    /\ Len(ret.val.txdata) = Len(Unwrap(raws))
                    /\ \A i \in 1..Len(Unwrap(raws)) :
                            ret.val.txdata[i] = deserialize_transaction(Unwrap(raws)[i]).val

\* A block is built from two raw blobs of different transactions.
C19_Witness ==
    /\ fn = "block_exec_create"
    /\ IsNone(arg.transactions)
    /\ IsSome(arg.raw_transactions)
    /\ Len(Unwrap(arg.raw_transactions)) = 2
    /\ ret.ok
    /\ Len(ret.val.txdata) = 2
    /\ ret.val.txdata[1] # ret.val.txdata[2]

(***************************************************************************)
(* C20.                                                                    *)
(***************************************************************************)
\* The payload field of a tri-state descriptor for the encoder called.
PayloadField ==
    CASE fn = "call_create_confidential_value" -> "value"
      [] fn = "call_create_confidential_asset" -> "asset"
      [] fn = "call_create_confidential_nonce" -> "nonce"

\* The encoder called.
Encoder(info) ==
    CASE fn = "call_create_confidential_value" -> create_confidential_value(info)
      [] fn = "call_create_confidential_asset" -> create_confidential_asset(info)
      [] fn = "call_create_confidential_nonce" -> create_confidential_nonce(info)

\* A tri-state descriptor with only its type and the field that type selects.
OnlySelectedField(info) ==
    [f \in DOMAIN info |->
        IF \/ f = "type_"
           \/ info.type_ = "explicit" /\ f = PayloadField
           \/ info.type_ = "confidential" /\ f = "commitment"
        THEN info[f] ELSE None]

\* C20: create_confidential_value, _asset and _nonce give Null for type null
\* whatever else the descriptor holds, fail for type explicit without the
\* explicit payload and for type confidential without commitment, and give
\* the same result, success or failure, when every field but the type and the
\* one field the type selects is removed, the asset label among them.
C20_ConfidentialDispatch ==
    fn \in {"call_create_confidential_value", "call_create_confidential_asset",
            "call_create_confidential_nonce"} =>
        /\ arg.type_ = "null" => ret = Ok(Null)
        /\ (arg.type_ = "explicit" /\ IsNone(arg[PayloadField])) => ~ ret.ok
        /\ (arg.type_ = "confidential" /\ IsNone(arg.commitment)) => ~ ret.ok
        /\ (arg.type_ = "explicit" /\ ret.ok) => ret.val = Explicit(Unwrap(arg[PayloadField]))
        /\ (arg.type_ = "confidential" /\ ret.ok) =>
                /\ ret.val.tag = "Confidential"
                /\ <<ret.val.p>> \o ret.val.c = Unwrap(arg.commitment)
        /\ ret = Encoder(OnlySelectedField(arg))

\* An explicit asset descriptor that names the asset only by its label, and
\* gives a well-formed commitment too, is refused.
C20_Witness ==
    /\ fn = "call_create_confidential_asset"
    /\ arg.type_ = "explicit"
    /\ IsNone(arg.asset)
    /\ arg.label = Some("liquid_bitcoin")
    /\ IsSome(arg.commitment)
    /\ ~ ret.ok

(***************************************************************************)
(* C24.                                                                    *)
(***************************************************************************)
\* C24: an input descriptor that gives a sequence, and that encodes when the
\* sequence is left out, encodes to an input whose sequence is the one given,
\* which TxIn::get_info then reports.
C24_SequencePreserved ==
    (/\ fn = "create_input"
     /\ IsSome(arg.sequence)
     /\ create_input([arg EXCEPT !.sequence = None]).ok)
        => /\ ret.ok
           /\ ret.val.sequence = Unwrap(arg.sequence)
           /\ TxIn_get_info(ret.val).sequence = arg.sequence

(***************************************************************************)
(* C25.                                                                    *)
(***************************************************************************)
\* C25: outpoint_from_input_info fails whenever txid is given without vout;
\* with prevout and vout but no txid it never fails as conflicting and, when
\* prevout parses, gives the outpoint of prevout, whatever vout is; with vout
\* alone it fails as having no previous output.
C25_SplitFieldsNeedTxid ==
    fn = "outpoint_from_input_info" =>
        /\ (IsSome(arg.txid) /\ IsNone(arg.vout)) => ~ ret.ok
        /\ (IsSome(arg.prevout) /\ IsSome(arg.vout) /\ IsNone(arg.txid)) =>
            /\ ret # Err("Conflicting prevout information in input.")
            /\ IF IsSome(outpoint_from_str(Unwrap(arg.prevout)))
               THEN ret = Ok(Unwrap(outpoint_from_str(Unwrap(arg.prevout))))
               ELSE ret = Err("invalid prevout format")
        /\ (IsNone(arg.prevout) /\ IsNone(arg.txid) /\ IsSome(arg.vout)) =>
            ret = Err("No previous output provided in input.")

\* A prevout with index 0 was given with vout 1 and no txid, and the outpoint
\* returned has index 0.
C25_Witness ==
    /\ fn = "outpoint_from_input_info"
    /\ IsSome(arg.prevout) /\ IsSome(arg.vout) /\ IsNone(arg.txid)
    /\ ret.ok
    /\ ret.val.vout = U32(0, 0)
    /\ Unwrap(arg.vout) = U32(0, 1)

(***************************************************************************)
(* C26.                                                                    *)
(***************************************************************************)
\* C26: an input that create_input built carries a non-empty peg-in witness
\* only if its is_pegin flag is set.
C26_PeginFlagAndWitness ==
    (fn = "create_input" /\ ret.ok) =>
        (ret.val.witness.pegin_witness # << >> => ret.val.is_pegin)

(***************************************************************************)
(* C27.                                                                    *)
(***************************************************************************)
\* C27: decoding an input that create_input built reports has_issuance true
\* and emits asset_issuance when the issuance flag of the descriptor resolved
\* to true, and reports has_issuance false and no asset_issuance when it
\* resolved to false.
C27_IssuanceFlagSurvives ==
    (fn = "create_input" /\ ret.ok) =>
        IF IssuanceFlag(arg)
        THEN /\ TxIn_get_info(ret.val).has_issuance = Some(TRUE)
             /\ IsSome(TxIn_get_info(ret.val).asset_issuance)
        ELSE /\ TxIn_get_info(ret.val).has_issuance = Some(FALSE)
             /\ IsNone(TxIn_get_info(ret.val).asset_issuance)

(***************************************************************************)
(* C28.                                                                    *)
(***************************************************************************)
\* create_input built a peg-in input from pegin_data, without an explicit
\* pegin_witness and with is_pegin unset or true.
PeginLowered ==
    /\ fn = "create_input"
    /\ IsSome(arg.pegin_data)
    /\ ~ (IsSome(arg.witness) /\ IsSome(Unwrap(arg.witness).pegin_witness))
    /\ arg.is_pegin \in {None, Some(TRUE)}
    /\ ret.ok

\* C28: decoding an input whose peg-in witness was lowered from pegin_data
\* yields pegin_data with the value, asset, genesis_hash, claim_script,
\* mainchain_tx_hex and merkle_proof that were supplied.
C28_PeginRoundTrip ==
    PeginLowered =>
        LET pd == Unwrap(arg.pegin_data)
            decoded == TxIn_get_info(ret.val).pegin_data
        IN /\ IsSome(decoded)
           /\ Unwrap(decoded).value = pd.value
           /\ Unwrap(decoded).asset.asset = pd.asset.asset
           /\ Unwrap(decoded).genesis_hash = pd.genesis_hash
           /\ Unwrap(decoded).claim_script = pd.claim_script
           /\ Unwrap(decoded).mainchain_tx_hex = pd.mainchain_tx_hex
           /\ Unwrap(decoded).merkle_proof = pd.merkle_proof

(***************************************************************************)
(* C29.                                                                    *)
(***************************************************************************)
\* The output script descriptor has asm and address but no hex.
AsmAndAddressOnly(spk) == IsNone(spk.hex) /\ IsSome(spk.asm) /\ IsSome(spk.address)

\* C29: a script descriptor with asm and address but no hex fails as not yet
\* supported, in create_script_pubkey and in create_bitcoin_script_pubkey;
\* when hex or asm is given, create_script_pubkey neither reads the network
\* accumulator (any other accumulator gives the same outcome) nor changes it;
\* a successful call gives the script of the address only when hex and asm
\* are both absent, and only then may the accumulator change.
C29_AsmBlocksAddress ==
    /\ fn = "create_script_pubkey" =>
        /\ AsmAndAddressOnly(arg.spk) =>
                ret = Err("Decoding script assembly is not yet supported.")
        /\ (IsSome(arg.spk.hex) \/ IsSome(arg.spk.asm)) =>
            /\ ret.ok => ret.val.used_network = arg.used_network
            /\ \A n \in UsedNetworks :
                    LET other == create_script_pubkey(arg.spk, n)
                    IN /\ other.ok = ret.ok
                       /\ ret.ok => (other.val.script = ret.val.script
                                     /\ other.val.used_network = n)
                       /\ ~ ret.ok => other = ret
        /\ (ret.ok /\ ret.val.used_network # arg.used_network) =>
            /\ IsNone(arg.spk.hex) /\ IsNone(arg.spk.asm)
            /\ ret.val.script = script_pubkey(Unwrap(arg.spk.address))
        /\ (ret.ok /\ IsSome(arg.spk.hex)) => ret.val.script = Unwrap(arg.spk.hex)
    /\ (fn = "create_script_pubkey_from_pegout_data"
            /\ AsmAndAddressOnly(arg.script_pub_key)) =>
        ret = Err("Decoding script assembly is not yet supported.")

\* A descriptor with asm and a Liquid address but no hex was refused as not
\* yet supported while the accumulator held ElementsRegtest.
C29_Witness ==
    /\ fn = "create_script_pubkey"
    /\ AsmAndAddressOnly(arg.spk)
    /\ arg.spk.address = Some(AddressLiquid)
    /\ arg.used_network = Some("ElementsRegtest")
    /\ ret = Err("Decoding script assembly is not yet supported.")

(***************************************************************************)
(* C30.                                                                    *)
(***************************************************************************)
\* C30: block create on a descriptor that block decode printed, with the
\* txids option or without it, does not fail for want of transactions or for
\* having both sources of them.
C30_DecodedBlockAccepted ==
    fn = "block_exec_create_decoded" =>
        /\ ret # Err("No transactions provided.")
        /\ ret # Err("Can't provide transactions both in JSON and raw.")

(***************************************************************************)
(* C21.                                                                    *)
(***************************************************************************)
OtherAssetIdArgs(m) == IsSome(m.prevout) \/ IsSome(m.contract_hash) \/ IsSome(m.contract_json)

\* C21: asset-id fails with the usage fault, whatever the entropy looks like,
\* when entropy comes with prevout, contract-hash or contract-json; without
\* entropy it fails when prevout is absent or neither contract-hash nor
\* contract-json is given; in every other case it fails only on an argument
\* that does not parse, and otherwise returns the asset id of the entropy:
\* the one given, or the one generated from prevout and contract hash.
C21_AssetIdUsage ==
    fn = "exec_asset_id" =>
        /\ (IsSome(arg.entropy) /\ OtherAssetIdArgs(arg)) =>
            ret = Err("If --entropy is given, no other arguments should be provided")
        /\ (IsNone(arg.entropy)
                /\ (IsNone(arg.prevout)
                        \/ (IsNone(arg.contract_hash) /\ IsNone(arg.contract_json)))) =>
            ~ ret.ok
        /\ (IsSome(arg.entropy) /\ ~ OtherAssetIdArgs(arg)) =>
            IF IsSome(hash_from_str(Unwrap(arg.entropy)))
            THEN ret = Ok(AssetId_from_entropy(
                           Midstate_from_bytes(Unwrap(hash_from_str(Unwrap(arg.entropy))))))
            ELSE ret = Err("invalid entropy hex")
        /\ (IsNone(arg.entropy) /\ IsSome(arg.prevout)
                /\ (IsSome(arg.contract_hash) \/ IsSome(arg.contract_json))) =>
            IF ret.ok
            THEN /\ ret.val.entropy.prevout = outpoint_from_str(Unwrap(arg.prevout))
                 /\ ret.val.entropy.contract_hash = Some(asset_contract_hash(arg).val)
                 /\ ret.val.entropy.bytes = << >>
            ELSE ret \in {Err("invalid prevout value"), Err("invalid contract hash hex"),
                          Err("invalid contract JSON")}

\* An entropy that is not hex came with a prevout and was refused for the
\* combination, not for its digits.
C21_Witness ==
    /\ fn = "exec_asset_id"
    /\ arg.entropy = Some(<<"z", "z">>)
    /\ IsSome(arg.prevout)
    /\ ret = Err("If --entropy is given, no other arguments should be provided")

(***************************************************************************)
(* C22.                                                                    *)
(***************************************************************************)
\* The arguments of asset-id that carry the contract text of a contract run.
AssetIdArgsOf(m) ==
    [entropy |-> None, prevout |-> Some(PrevoutA), contract_hash |-> None,
     contract_json |-> m.json, preserve_order |-> m.preserve_order]

\* C22: the contract command on a JSON contract reports as raw_contract the
\* supplied text without the white space between its tokens, keys and
\* structure as supplied, and as contract_hash the hash of exactly that
\* text; asset-id computes the same hash from the same contract-json.
C22_ContractHashing ==
    (fn = "exec_contract" /\ IsSome(arg.json) /\ ret.ok) =>
        /\ ret.val.raw_contract = skip_whitespace(Unwrap(arg.json))
        /\ ret.val.contract_hash = ContractHash_hash(ret.val.raw_contract)
        /\ asset_contract_hash(AssetIdArgsOf(arg)) = Ok(ret.val.contract_hash)

(***************************************************************************)
(* C23.                                                                    *)
(***************************************************************************)
\* The object a create run has to build from its descriptor.
BuiltObject(m) ==
    IF m.group = "tx" THEN create_transaction(m.info) ELSE create_block(m.info)

NoEncodedBytes(stdout) == \A i \in 1..Len(stdout) : stdout[i].kind = "message"

\* C23: when building the transaction or block of a descriptor fails
\* anywhere, the create run writes no encoded bytes, whole or partial, and
\* ends with status 1; whatever encoded bytes a run writes are one chunk, the
\* serialization of the whole built object, and the run ends with status 0.
C23_AllOrNothingEncode ==
    fn \in {"main", "block_exec_create_hooked"} =>
        /\ ~ BuiltObject(arg).ok => (NoEncodedBytes(ret.stdout) /\ ret.status = 1)
        /\ ~ NoEncodedBytes(ret.stdout) =>
            /\ BuiltObject(arg).ok
            /\ ret.status = 0
            /\ Len(ret.stdout) = 1
            /\ ret.stdout[1].bytes = consensus_serialize(BuiltObject(arg).val)

\* A descriptor whose second input cannot be built, after a first one that
\* can: nothing of the first was written.
C23_Witness ==
    /\ fn = "main"
    /\ arg.group = "tx"
    /\ IsSome(arg.info.inputs)
    /\ Len(Unwrap(arg.info.inputs)) = 2
    /\ create_input(Unwrap(arg.info.inputs)[1]).ok
    /\ ~ create_input(Unwrap(arg.info.inputs)[2]).ok
    /\ NoEncodedBytes(ret.stdout)
    /\ ret.status = 1

=============================================================================
